---- MODULE Spec2Model ----
(***************************************************************************)
(* A model of the gridstats fetcher: the poll scheduler                    *)
(* (ElexonFetcher.run), the stream router (BMRSClient.on_message) and the  *)
(* SQL statements both issue against storage.                              *)
(*                                                                         *)
(* The specifications share the storage layer:                             *)
(*   Spec         the poll scheduler, its jobs and their transactions      *)
(*   SpecRouter   the stream router and its handlers                       *)
(*   SpecStore    the statements of the tasks and handlers, one at a time  *)
(*   SpecRace     a task and a handler racing on one table                 *)
(*   SpecBatch    the callers of DB.get_fuel_type, a batch at a time       *)
(*   SpecFuel     DB.get_fuel_type and its cache                           *)
(*   SpecPeriods  sp_to_datetime                                           *)
(*   SpecSubject  unit_from_subject                                        *)
(*   SpecRegistry BMRSClient.register_handler                              *)
(*   SpecLive     the run loop over unbounded time, seen from one job      *)
(*   SpecMessage  a handler writing the rows of one message                *)
(*   SpecStream   the subscription delivering frames to on_message         *)
(*   SpecShutdown the poll scheduler with a shutdown signal                *)
(*   SpecRefill   fetch_fuel_types and fetch_generation_hh over an empty   *)
(*                fuel_type table                                          *)
(* Column values are naturals; 0 stands for SQL NULL / FALSE.              *)
(***************************************************************************)
EXTENDS Integers, Sequences, FiniteSets, TLC

VARIABLES
    \* ---- poll scheduler (ElexonFetcher) ----
    clock,        \* wall clock, seconds since the process started
    pc,           \* position of run(): "init", "register", "for", "txn", "sleep", "crashed"
    fetch_jobs,   \* self.fetch_jobs: sequence of FetchJob [func, frequency, last_run]
    job,          \* index of the job the for loop is at
    now,          \* the local `now` of the for loop body
    step,         \* index of the next statement of the running action
    db,           \* committed storage: table name -> set of rows
    tx_log,       \* statements executed in the open transaction, not yet committed
    fuel_cache,   \* lru_cache of DB.get_fuel_type: <<ref, id>> entries, oldest use first
    failures,     \* number of action invocations that raised so far
    tick_log,     \* per job, what the current tick did with it, and the statements it
                  \* committed
    invocations,  \* per job, its invocations so far: [at, outcome], at the `now` of each
    ended,        \* how the invocation that ended last ended: "returned" or "raised"
    snapshot,     \* committed storage when the open transaction began
    \* ---- stream router (BMRSClient / PushListener) ----
    rpc,          \* position of on_message: "idle" or "dispatch" (in the handler loop)
    handlers,     \* self.handlers: message type -> handler name
    envelope,     \* the envelope on_message was last called with: [type, body]
    pending,      \* elements of the envelope still to hand to the handler
    calls,        \* handler invocations made for this envelope: <<handler, position>>
    parsed,       \* number of times ET.fromstring was called for this envelope
    result,       \* how on_message ended for this envelope: "returned", "raised"; "none" before
    written,      \* positions of the messages of this envelope whose rows were written
    delivered,    \* number of envelopes delivered so far
    \* ---- statements against one table (SpecStore) ----
    stmt,         \* the statement a task or handler executes
    rows,         \* committed rows of its table
    before,       \* the rows before the last statement
    applied,      \* the statements executed so far, in order: [rec, ok]
    wr,           \* two writers racing on one table: the poll task's transaction and
                  \* the stream handler's statements
    \* ---- calls of the helper functions ----
    call,         \* the call made last: [fn, ...arguments]
    ret,          \* what it returned, or that it raised
    hist          \* the calls made before it, as far as a cache or registry keeps them

schedVars == <<clock, pc, fetch_jobs, job, now, step, db, tx_log, fuel_cache,
               failures, tick_log, invocations, ended, snapshot>>
routerVars == <<rpc, handlers, envelope, pending, calls, parsed, result, written,
                delivered>>
storeVars == <<stmt, rows, before, applied, wr>>
libVars == <<call, ret, hist>>
vars == <<schedVars, routerVars, storeVars, libVars>>

-----------------------------------------------------------------------------
(* Bounds of the model                                                     *)

\* the clock stops at MaxTime seconds
MaxTime == 34
\* actions that raise, over one run of the scheduler
MaxFailures == 2
\* seconds a slow action takes (a fast one takes 0)
LongRun == 31

\* envelopes delivered over one run of the router
MaxEnvelopes == 2
\* child elements of a delivered msgGrp document
MaxMsgs == 2

\* column values are 1..MaxVal
MaxVal == 2
\* statements executed against the table of SpecStore
MaxWrites == 2
\* rows each racing writer upserts
MaxBatch == 2

\* refs in the fuel_type table of SpecFuel
MaxRefs == 130
\* program constant: the default maxsize of lru_cache()
LruMaxSize == 128

\* program constant: the tick quantum, asyncio.sleep(2)
SleepSeconds == 2

-----------------------------------------------------------------------------
(* Storage: tables, rows and the SQL statements of the source              *)

\* Optional values: <<>> is None, <<v>> is v
NoneVal == <<>>
Some(v) == <<v>>

\* the columns of each table, as the statements of the source name them
Columns(table) ==
    CASE table = "participant" -> {"ref", "name", "last_seen"}
      [] table = "bm_unit" -> {"id", "ng_ref", "elexon_ref", "fuel", "party_name", "type",
                               "fpn", "name", "region", "participant", "prod_cons",
                               "last_seen"}
      [] table = "fuel_type" -> {"id", "ref", "name", "interconnector"}
      [] table = "wikidata_plants" -> {"wd_id", "name"}
      [] table = "wd_bm_unit" -> {"wd_id", "bm_unit"}
      [] table = "system_demand" -> {"time", "demand"}
      [] table = "carbon_intensity_national" -> {"time", "intensity"}
      [] table = "carbon_intensity_national_forecast" -> {"time", "intensity"}
      [] table = "initial_demand_outturn" ->
            {"time", "settlement_date", "settlement_period", "demand_outturn",
             "transmission_demand_outturn"}
      [] table = "generation_by_fuel_type_hh" ->
            {"time", "fuel_type", "settlement_period", "generation"}
      [] table = "generation_by_fuel_type_inst" -> {"time", "fuel_type", "generation"}
      [] table = "embedded_generation" ->
            {"time", "solar_generation", "solar_capacity", "wind_generation",
             "wind_capacity"}
      [] table = "embedded_generation_forecast" ->
            {"time", "solar_generation", "solar_capacity", "wind_generation",
             "wind_capacity"}
      [] table = "demand_forecast" ->
            {"time", "settlement_period", "transmission_demand", "national_demand"}
      [] table = "pv_live" -> {"time", "pv_generation"}
      [] table = "frequency" -> {"time", "frequency"}
      [] table = "system_warning" -> {"time", "warning"}
      [] table = "stable_export_limit" -> {"time", "unit", "export_limit"}
      [] table = "maximum_export_limit" -> {"time", "unit", "export_limit"}
      [] table = "maximum_import_limit" -> {"time", "unit", "import_limit"}
      [] table = "physical_notification" -> {"time", "unit", "level"}
      [] table = "lolp_dm" -> {"time", "loss_of_load_probability", "derated_margin"}

\* A statement of the source: kind is
\*   "insert"       INSERT ... [ON CONFLICT (key) DO UPDATE SET set | DO NOTHING]
\*   "update_where" UPDATE ... SET set WHERE key = :key AND interconnector = FALSE
\*   "units_row"    fetch_units' SELECT, then UPDATE (no WHERE) or INSERT
\* ins: the columns of the INSERT list; key: the conflict target / WHERE columns;
\* set: the columns of the SET list; conflict: "update", "nothing" or "error"
\* (no ON CONFLICT clause: a duplicate key is a unique violation).
Statement(kind, table, ins, key, set, conflict) ==
    [kind |-> kind, table |-> table, ins |-> ins, key |-> key, set |-> set,
     conflict |-> conflict]

Upsert(table, key, set) ==
    Statement("insert", table, key \cup set, key, set, "update")

\* ---- the statements of elexon_fetcher.py ----
carbon_intensity_national_stmt ==
    Upsert("carbon_intensity_national", {"time"}, {"intensity"})
carbon_intensity_national_forecast_stmt ==
    Upsert("carbon_intensity_national_forecast", {"time"}, {"intensity"})
embedded_generation_stmt ==
    Upsert("embedded_generation", {"time"},
           {"solar_generation", "solar_capacity", "wind_generation", "wind_capacity"})
embedded_generation_forecast_stmt ==
    Upsert("embedded_generation_forecast", {"time"},
           {"solar_generation", "solar_capacity", "wind_generation", "wind_capacity"})
pv_live_stmt ==
    Upsert("pv_live", {"time"}, {"pv_generation"})
generation_by_fuel_type_hh_stmt ==
    Upsert("generation_by_fuel_type_hh", {"time", "fuel_type"},
           {"settlement_period", "generation"})
generation_by_fuel_type_inst_stmt ==
    Upsert("generation_by_fuel_type_inst", {"time", "fuel_type"}, {"generation"})
fuel_type_insert_stmt ==
    Statement("insert", "fuel_type", {"ref"}, {"ref"}, {}, "nothing")
fuel_type_update_stmt ==
    Statement("update_where", "fuel_type", {}, {"ref"}, {"name", "interconnector"},
              "update")
bm_unit_units_stmt ==
    Statement("units_row", "bm_unit",
              {"ng_ref", "elexon_ref", "fuel", "party_name", "type", "fpn"},
              {"ng_ref", "elexon_ref"},
              {"party_name", "elexon_ref", "ng_ref", "fuel", "fpn", "type", "last_seen"},
              "update")
bm_unit_detail_stmt ==
    Statement("insert", "bm_unit",
              {"ng_ref", "elexon_ref", "name", "region", "participant", "prod_cons"},
              {"elexon_ref"},
              {"name", "region", "participant", "prod_cons", "last_seen"}, "update")
participant_stmt ==
    Statement("insert", "participant", {"ref", "name"}, {"ref"}, {"name", "last_seen"},
              "update")
initial_demand_outturn_stmt ==
    Statement("insert", "initial_demand_outturn",
              {"time", "settlement_date", "settlement_period", "demand_outturn",
               "transmission_demand_outturn"},
              {"time"}, {"demand_outturn", "transmission_demand_outturn"}, "update")
demand_forecast_stmt ==
    Statement("insert", "demand_forecast",
              {"time", "settlement_period", "transmission_demand", "national_demand"},
              {"time"}, {"transmission_demand", "national_demand"}, "update")
wikidata_plants_stmt ==
    Upsert("wikidata_plants", {"wd_id"}, {"name"})
wd_bm_unit_stmt ==
    Upsert("wd_bm_unit", {"bm_unit"}, {"wd_id"})

\* (a slip: the ON CONFLICT clause is left out)
system_demand_insert_only ==
    Statement("insert", "system_demand", {"time", "demand"}, {"time"}, {"demand"}, "error")
fuelinst_insert_only ==
    Statement("insert", "generation_by_fuel_type_inst", {"time", "fuel_type", "generation"},
              {"time", "fuel_type"}, {"generation"}, "error")

system_demand_stmt ==
    Upsert("system_demand", {"time"}, {"demand"})

\* ---- the statements of push_listener.py ----
frequency_stmt ==
    Upsert("frequency", {"time"}, {"frequency"})
fuelinst_stmt ==
    Upsert("generation_by_fuel_type_inst", {"time", "fuel_type"}, {"generation"})
system_warning_stmt ==
    Upsert("system_warning", {"time"}, {"warning"})
stable_export_limit_stmt ==
    Upsert("stable_export_limit", {"time", "unit"}, {"export_limit"})
maximum_export_limit_stmt ==
    Upsert("maximum_export_limit", {"time", "unit"}, {"export_limit"})
maximum_import_limit_stmt ==
    Upsert("maximum_import_limit", {"time", "unit"}, {"import_limit"})
physical_notification_stmt ==
    Upsert("physical_notification", {"time", "unit"}, {"level"})
lolp_dm_stmt ==
    Upsert("lolp_dm", {"time"}, {"loss_of_load_probability", "derated_margin"})

SameKey(q, row, rec) == \A c \in q.key : row[c] = rec[c]

\* the id a serial primary key gives the next inserted row
NextId(tbl) == Cardinality(tbl) + 1

\* the row an INSERT stores: the listed columns from the record, a serial id, NULL elsewhere
InsertedRow(q, tbl, rec) ==
    [c \in Columns(q.table) |->
        IF c \in q.ins THEN rec[c] ELSE IF c = "id" THEN NextId(tbl) ELSE 0]

\* the row an UPDATE leaves: the SET columns from the record, the others kept
UpdatedRow(q, row, rec) ==
    [c \in DOMAIN row |-> IF c \in q.set THEN rec[c] ELSE row[c]]

\* INSERT ... ON CONFLICT: [ok, rows]; ok = FALSE is a unique violation
ExecInsert(q, tbl, rec) ==
    IF \E row \in tbl : SameKey(q, row, rec)
    THEN CASE q.conflict = "update" ->
                [ok |-> TRUE,
                 rows |-> {IF SameKey(q, row, rec) THEN UpdatedRow(q, row, rec) ELSE row :
                           row \in tbl}]
           [] q.conflict = "nothing" -> [ok |-> TRUE, rows |-> tbl]
           [] OTHER -> [ok |-> FALSE, rows |-> tbl]
    ELSE [ok |-> TRUE, rows |-> tbl \cup {InsertedRow(q, tbl, rec)}]

\* UPDATE fuel_type SET name, interconnector = TRUE WHERE ref = :ref AND interconnector = FALSE
ExecUpdateWhere(q, tbl, rec) ==
    [ok |-> TRUE,
     rows |-> {IF SameKey(q, row, rec) /\ row["interconnector"] = 0
               THEN UpdatedRow(q, row, rec) ELSE row : row \in tbl}]

\* One row of fetch_units: SELECT id FROM bm_unit WHERE ng_ref = :ng_ref OR elexon_ref =
\* :elexon_ref; a hit runs the UPDATE, which has no WHERE clause and so rewrites every
\* row of bm_unit; elexon_ref is unique (it is the conflict target of fetch_units_detail),
\* so the UPDATE is a unique violation as soon as the table holds two rows.
ExecUnitsRow(q, tbl, rec) ==
    IF \E row \in tbl : row["ng_ref"] = rec["ng_ref"] \/ row["elexon_ref"] = rec["elexon_ref"]
    THEN IF Cardinality(tbl) > 1
         THEN [ok |-> FALSE, rows |-> tbl]
         ELSE [ok |-> TRUE, rows |-> {UpdatedRow(q, row, rec) : row \in tbl}]
    ELSE [ok |-> TRUE, rows |-> tbl \cup {InsertedRow(q, tbl, rec)}]

\* what the storage does with one statement and one record of its values
ExecStatement(q, tbl, rec) ==
    CASE q.kind = "insert" -> ExecInsert(q, tbl, rec)
      [] q.kind = "update_where" -> ExecUpdateWhere(q, tbl, rec)
      [] q.kind = "units_row" -> ExecUnitsRow(q, tbl, rec)

-----------------------------------------------------------------------------
(* Transactions: the statements of an open transaction are kept as a log;  *)
(* the transaction reads the committed rows with its own log applied.      *)

Tables ==
    {"participant", "bm_unit", "fuel_type", "wikidata_plants", "wd_bm_unit",
     "system_demand", "carbon_intensity_national", "carbon_intensity_national_forecast",
     "initial_demand_outturn", "generation_by_fuel_type_hh", "embedded_generation",
     "embedded_generation_forecast", "demand_forecast", "pv_live"}

Apply(d, e) == [d EXCEPT ![e.q.table] = ExecStatement(e.q, d[e.q.table], e.rec).rows]

RECURSIVE Replay(_, _)
Replay(d, log) == IF log = <<>> THEN d ELSE Replay(Apply(d, Head(log)), Tail(log))

\* what the open transaction reads
View(d, log) == Replay(d, log)

\* (a slip: the action's statements are never committed)
CommitNothing(d, log) == d

\* leaving `async with self.db.db.transaction()` normally: the log is committed as one
Commit(d, log) == Replay(d, log)

\* (a slip: the action's statements run outside the transaction, so what was written
\* before the exception stays)
RollbackKeepsWrites(d, log) == Replay(d, log)

\* leaving it by an exception: the log is dropped
Rollback(d, log) == d

-----------------------------------------------------------------------------
(* DB.get_fuel_type and its lru_cache                                      *)

\* SELECT id FROM fuel_type WHERE ref = :ref: the id, or None
SelectFuelTypeId(tbl, ref) ==
    IF \E row \in tbl : row["ref"] = ref
    THEN Some((CHOOSE row \in tbl : row["ref"] = ref)["id"])
    ELSE NoneVal

\* @lru_cache(): the cache is a sequence of <<ref, id>>, least recently used first,
\* of at most LruMaxSize entries
CachedAt(cache, ref) == {k \in 1..Len(cache) : cache[k][1] = ref}

\* a hit moves the entry to the most recently used end
MoveToEnd(cache, k) ==
    [n \in 1..Len(cache) |->
        IF n < k THEN cache[n] ELSE IF n < Len(cache) THEN cache[n + 1] ELSE cache[k]]

\* a miss stores the result, dropping the least recently used entry of a full cache
Stored(cache, entry) ==
    IF Len(cache) >= LruMaxSize THEN Append(Tail(cache), entry) ELSE Append(cache, entry)

\* (a slip: the cache keeps the outcome of a lookup that raised, as an entry with id 0,
\* and a later call for the ref raises again from the cache)
get_fuel_type_caching_failure(cache, tbl, ref) ==
    IF CachedAt(cache, ref) # {}
    THEN LET id == cache[CHOOSE k \in CachedAt(cache, ref) : TRUE][2]
         IN  [ok |-> id # 0, id |-> id,
              cache |-> MoveToEnd(cache, CHOOSE k \in CachedAt(cache, ref) : TRUE),
              reads |-> 0]
    ELSE LET res == SelectFuelTypeId(tbl, ref)
         IN  IF res = NoneVal
             THEN [ok |-> FALSE, id |-> 0, cache |-> Stored(cache, <<ref, 0>>), reads |-> 1]
             ELSE [ok |-> TRUE, id |-> res[1], cache |-> Stored(cache, <<ref, res[1]>>),
                   reads |-> 1]

\* (a slip: a missing ref yields no id instead of an error)
get_fuel_type_or_none(cache, tbl, ref) ==
    IF CachedAt(cache, ref) # {}
    THEN [ok |-> TRUE, id |-> cache[CHOOSE k \in CachedAt(cache, ref) : TRUE][2],
          cache |-> MoveToEnd(cache, CHOOSE k \in CachedAt(cache, ref) : TRUE), reads |-> 0]
    ELSE LET res == SelectFuelTypeId(tbl, ref)
         IN  IF res = NoneVal
             THEN [ok |-> TRUE, id |-> 0, cache |-> Stored(cache, <<ref, 0>>), reads |-> 1]
             ELSE [ok |-> TRUE, id |-> res[1], cache |-> Stored(cache, <<ref, res[1]>>),
                   reads |-> 1]

\* [ok, id, cache, reads]: a cached ref is answered from the cache; a miss reads storage,
\* and raises "Missing fuel type" when the ref is absent (an exception is not cached)
get_fuel_type(cache, tbl, ref) ==
    IF CachedAt(cache, ref) # {}
    THEN [ok |-> TRUE, id |-> cache[CHOOSE k \in CachedAt(cache, ref) : TRUE][2],
          cache |-> MoveToEnd(cache, CHOOSE k \in CachedAt(cache, ref) : TRUE), reads |-> 0]
    ELSE LET res == SelectFuelTypeId(tbl, ref)
         IN  IF res = NoneVal
             THEN [ok |-> FALSE, id |-> 0, cache |-> cache, reads |-> 1]
             ELSE [ok |-> TRUE, id |-> res[1], cache |-> Stored(cache, <<ref, res[1]>>),
                   reads |-> 1]

-----------------------------------------------------------------------------
(* The poll scheduler: ElexonFetcher.run                                   *)

FetchJob(func, frequency) ==
    [func |-> func, frequency |-> frequency, last_run |-> NoneVal]

register_fetcher(jobs, fetch_func, frequency) ==
    Append(jobs, FetchJob(fetch_func, frequency))

\* the register_fetcher calls of run(), in order
Registrations ==
    << <<"fetch_parties", 43200>>,
       <<"fetch_units", 3600>>,
       <<"fetch_units_detail", 43200>>,
       <<"fetch_fuel_types", 3600>>,
       <<"fetch_wikidata_plants", 900>>,
       <<"fetch_rolling_system_demand", 30>>,
       <<"fetch_carbon_intensity", 120>>,
       <<"fetch_demand_outturn", 120>>,
       <<"fetch_generation_hh", 120>>,
       <<"fetch_demand_data_update", 120>>,
       <<"fetch_demand_forecast", 120>>,
       <<"fetch_pv_live", 120>> >>

NJobs == Len(Registrations)

\* (a slip: >= for >)
IsDueAtFrequency(j, t) ==
    IF j.last_run = NoneVal THEN TRUE ELSE (t - j.last_run[1]) >= j.frequency

\* job.last_run is None or (now - job.last_run).total_seconds() > job.frequency
IsDue(j, t) ==
    IF j.last_run = NoneVal THEN TRUE ELSE (t - j.last_run[1]) > j.frequency

\* the statements each action executes, in program order
Plan(func) ==
    CASE func = "fetch_parties" -> <<participant_stmt>>
      [] func = "fetch_units" -> <<bm_unit_units_stmt>>
      [] func = "fetch_units_detail" -> <<bm_unit_detail_stmt>>
      [] func = "fetch_fuel_types" -> <<fuel_type_insert_stmt, fuel_type_update_stmt>>
      [] func = "fetch_wikidata_plants" -> <<wikidata_plants_stmt, wd_bm_unit_stmt>>
      [] func = "fetch_rolling_system_demand" -> <<system_demand_stmt>>
      [] func = "fetch_carbon_intensity" ->
            <<carbon_intensity_national_stmt, carbon_intensity_national_forecast_stmt>>
      [] func = "fetch_demand_outturn" -> <<initial_demand_outturn_stmt>>
      [] func = "fetch_generation_hh" -> <<generation_by_fuel_type_hh_stmt>>
      [] func = "fetch_demand_data_update" ->
            <<embedded_generation_stmt, embedded_generation_forecast_stmt>>
      [] func = "fetch_demand_forecast" -> <<demand_forecast_stmt>>
      [] func = "fetch_pv_live" -> <<pv_live_stmt>>

\* the tables an action writes
Populates(func) == {Plan(func)[k].table : k \in 1..Len(Plan(func))}

\* the reference tables an action looks up to build its rows
ReadsReference(func) ==
    CASE func = "fetch_units" -> {"fuel_type"}
      [] func = "fetch_units_detail" -> {"region"}
      [] func = "fetch_generation_hh" -> {"fuel_type"}
      [] func = "fetch_wikidata_plants" -> {"bm_unit"}
      [] OTHER -> {}

\* The data a fetch at time t returns: one record per statement, with key 1 and every
\* measured value stamped with the time of the fetch.
Stamp(t) == t + 1

Fetched(q, t) == [c \in Columns(q.table) |-> IF c \in q.key THEN 1 ELSE Stamp(t)]

\* The `values` an action passes to statement q: [ok, recs, cache]. ok = FALSE when
\* building the values raises (get_fuel_type on a missing ref).
Values(func, q, t, view, cache) ==
    CASE func = "fetch_units" ->
            \* fuel_types.get(row["fuelType"]): the id, or None
            LET f == SelectFuelTypeId(view["fuel_type"], 1)
            IN  [ok |-> TRUE, cache |-> cache,
                 recs |-> <<[Fetched(q, t) EXCEPT !["fuel"] = IF f = NoneVal THEN 0 ELSE f[1]]>>]
      [] func = "fetch_fuel_types" /\ q.kind = "update_where" ->
            [ok |-> TRUE, cache |-> cache,
             recs |-> <<[Fetched(q, t) EXCEPT !["interconnector"] = 1]>>]
      [] func = "fetch_generation_hh" ->
            LET g == get_fuel_type(cache, view["fuel_type"], 1)
            IN  [ok |-> g.ok, cache |-> g.cache,
                 recs |-> <<[Fetched(q, t) EXCEPT !["fuel_type"] = g.id]>>]
      [] func = "fetch_wikidata_plants" /\ q.table = "wd_bm_unit" ->
            \* SELECT id FROM bm_unit WHERE ng_ref = :bm_unit; a missing unit is skipped
            LET hit == {row \in view["bm_unit"] : row["ng_ref"] = 1}
            IN  [ok |-> TRUE, cache |-> cache,
                 recs |-> IF hit = {} THEN <<>>
                          ELSE <<[wd_id |-> 1, bm_unit |-> (CHOOSE row \in hit : TRUE)["id"]]>>]
      [] OTHER -> [ok |-> TRUE, cache |-> cache, recs |-> <<Fetched(q, t)>>]

\* execute_many(query, values) inside the transaction: [ok, log]
RECURSIVE execute_many(_, _, _, _)
execute_many(d, log, q, recs) ==
    IF recs = <<>> THEN [ok |-> TRUE, log |-> log]
    ELSE IF ExecStatement(q, View(d, log)[q.table], Head(recs)).ok
         THEN execute_many(d, Append(log, [q |-> q, rec |-> Head(recs)]), q, Tail(recs))
         ELSE [ok |-> FALSE, log |-> log]

\* (a slip: no except clause around the action)
CatchesNothing(exc) == FALSE

\* `except Exception:` of run(): the exceptions an action raises are caught
Catches(exc) == exc = "Exception"

\* (a slip: job.last_run = datetime.utcnow(), the time the action ended)
SetLastRunAtEnd(jobs, i, t, raised) == [jobs EXCEPT ![i].last_run = Some(clock')]

\* (a slip: last_run is set inside the try, after the action, so not when it raised)
SetLastRunOnSuccess(jobs, i, t, raised) ==
    IF raised THEN jobs ELSE [jobs EXCEPT ![i].last_run = Some(t)]

\* job.last_run = now, after the try statement: also when the action raised
SetLastRun(jobs, i, t, raised) == [jobs EXCEPT ![i].last_run = Some(t)]

\* how long the action that just ended took
Durations == {0, LongRun}

NoLog == [outcome |-> "none", at |-> 0, prev |-> NoneVal, log |-> <<>>]

InitRouterVars ==
    /\ rpc = "off"
    /\ handlers = <<>>
    /\ envelope = <<>>
    /\ pending = <<>>
    /\ calls = <<>>
    /\ parsed = 0
    /\ result = "none"
    /\ written = {}
    /\ delivered = 0

InitStoreVars ==
    /\ stmt = <<>>
    /\ rows = {}
    /\ before = {}
    /\ applied = <<>>
    /\ wr = <<>>

InitLibVars ==
    /\ call = <<>>
    /\ ret = <<>>
    /\ hist = <<>>

InitSchedVarsWith(d) ==
    /\ clock = 0
    /\ pc = "init"
    /\ fetch_jobs = <<>>
    /\ job = 1
    /\ now = 0
    /\ step = 1
    /\ db = d
    /\ tx_log = <<>>
    /\ fuel_cache = <<>>
    /\ failures = 0
    /\ tick_log = [i \in 1..NJobs |-> NoLog]
    /\ invocations = [i \in 1..NJobs |-> <<>>]
    /\ ended = "none"
    /\ snapshot = d

InitSchedVars == InitSchedVarsWith([t \in Tables |-> {}])

Init == InitSchedVars /\ InitRouterVars /\ InitStoreVars /\ InitLibVars

\* a step of the scheduler leaves the router and the statement bench alone
SchedOnly == UNCHANGED <<routerVars, storeVars, libVars>>

\* await self.db.connect()
Connect ==
    /\ SchedOnly
    /\ pc = "init"
    /\ pc' = "register"
    /\ UNCHANGED <<clock, fetch_jobs, job, now, step, db, tx_log, fuel_cache, failures,
                   tick_log, invocations, ended, snapshot>>

\* the next self.register_fetcher(...) of run()
Register ==
    /\ SchedOnly
    /\ pc = "register"
    /\ LET r == Len(fetch_jobs) + 1
       IN  /\ fetch_jobs' = register_fetcher(fetch_jobs, Registrations[r][1],
                                             Registrations[r][2])
           /\ pc' = IF r = NJobs THEN "for" ELSE "register"
    /\ UNCHANGED <<clock, job, now, step, db, tx_log, fuel_cache, failures, tick_log,
                   invocations, ended, snapshot>>

\* the for loop moves on: the next job, or the sleep that ends the tick
NextPc(i) == IF i < Len(fetch_jobs) THEN "for" ELSE "sleep"
NextJob(i) == IF i < Len(fetch_jobs) THEN i + 1 ELSE i

\* for job in self.fetch_jobs: now = utcnow(); the due check; a job that is not due
SkipJob ==
    /\ SchedOnly
    /\ pc = "for"
    /\ ~IsDue(fetch_jobs[job], clock)
    /\ now' = clock
    /\ tick_log' = [tick_log EXCEPT ![job] =
                        [outcome |-> "skipped", at |-> clock, prev |-> fetch_jobs[job].last_run,
                         log |-> <<>>]]
    /\ pc' = NextPc(job)
    /\ job' = NextJob(job)
    /\ UNCHANGED <<clock, fetch_jobs, step, db, tx_log, fuel_cache, failures, invocations,
                   ended, snapshot>>

\* ... a job that is due: the transaction is opened and the action starts
StartJob ==
    /\ SchedOnly
    /\ pc = "for"
    /\ IsDue(fetch_jobs[job], clock)
    /\ now' = clock
    /\ tick_log' = [tick_log EXCEPT ![job] =
                        [outcome |-> "running", at |-> clock, prev |-> fetch_jobs[job].last_run,
                         log |-> <<>>]]
    /\ invocations' = [invocations EXCEPT ![job] =
                            Append(@, [at |-> clock, outcome |-> "running"])]
    /\ pc' = "txn"
    /\ step' = 1
    /\ tx_log' = <<>>
    /\ snapshot' = db
    /\ UNCHANGED <<clock, fetch_jobs, job, db, fuel_cache, failures, ended>>

\* what ends an invocation: lines 98-103 and the loop's next position
EndInvocation(raised, d) ==
    /\ clock + d <= MaxTime
    /\ clock' = clock + d
    /\ tick_log' = [tick_log EXCEPT ![job].outcome = IF raised THEN "raised" ELSE "returned",
                                    ![job].log = IF raised THEN <<>> ELSE tx_log]
    /\ invocations' = [invocations EXCEPT ![job][Len(invocations[job])].outcome =
                            IF raised THEN "raised" ELSE "returned"]
    /\ ended' = IF raised THEN "raised" ELSE "returned"
    /\ IF raised /\ ~Catches("Exception")
       THEN /\ pc' = "crashed"
            /\ UNCHANGED <<fetch_jobs, job>>
       ELSE /\ fetch_jobs' = SetLastRun(fetch_jobs, job, now, raised)
            /\ pc' = NextPc(job)
            /\ job' = NextJob(job)

\* the running action executes its next execute_many
ActionStatement ==
    /\ SchedOnly
    /\ pc = "txn"
    /\ step <= Len(Plan(fetch_jobs[job].func))
    /\ LET q == Plan(fetch_jobs[job].func)[step]
           v == Values(fetch_jobs[job].func, q, now, View(db, tx_log), fuel_cache)
           r == execute_many(db, tx_log, q, v.recs)
       IN  /\ v.ok /\ r.ok
           /\ tx_log' = r.log
           /\ fuel_cache' = v.cache
    /\ step' = step + 1
    /\ UNCHANGED <<clock, pc, fetch_jobs, job, now, db, failures, tick_log, invocations,
                   ended, snapshot>>

\* the running action returns: the transaction commits
ActionReturn ==
    /\ SchedOnly
    /\ pc = "txn"
    /\ step > Len(Plan(fetch_jobs[job].func))
    /\ db' = Commit(db, tx_log)
    /\ \E d \in Durations : EndInvocation(FALSE, d)
    /\ UNCHANGED <<now, step, tx_log, fuel_cache, failures, snapshot>>

\* The running action raises at its next statement: the fetch before it failed, its
\* values could not be built, or storage refused it. The transaction rolls back.
ActionRaise ==
    /\ SchedOnly
    /\ pc = "txn"
    /\ step <= Len(Plan(fetch_jobs[job].func))
    /\ LET q == Plan(fetch_jobs[job].func)[step]
           v == Values(fetch_jobs[job].func, q, now, View(db, tx_log), fuel_cache)
       IN  \/ failures < MaxFailures
           \/ ~v.ok
           \/ ~execute_many(db, tx_log, q, v.recs).ok
    /\ failures' = failures + 1
    /\ db' = Rollback(db, tx_log)
    /\ \E d \in Durations : EndInvocation(TRUE, d)
    /\ UNCHANGED <<now, step, tx_log, fuel_cache, snapshot>>

\* await asyncio.sleep(2), then the next tick
Sleep ==
    /\ SchedOnly
    /\ pc = "sleep"
    /\ clock + SleepSeconds <= MaxTime
    /\ clock' = clock + SleepSeconds
    /\ pc' = "for"
    /\ job' = 1
    /\ tick_log' = [i \in 1..NJobs |-> NoLog]
    /\ UNCHANGED <<fetch_jobs, now, step, db, tx_log, fuel_cache, failures, invocations,
                   ended, snapshot>>

Next ==
    \/ Connect
    \/ Register
    \/ SkipJob
    \/ StartJob
    \/ ActionStatement
    \/ ActionReturn
    \/ ActionRaise
    \/ Sleep

Spec == Init /\ [][Next]_vars

-----------------------------------------------------------------------------
(* Properties of the poll scheduler                                        *)

Frequency(i) == Registrations[i][2]

Invoked(i) == tick_log[i].outcome \in {"running", "returned", "raised"}

\* the due condition, on what the tick recorded when it evaluated job i
WasDue(i) ==
    IF tick_log[i].prev = NoneVal THEN TRUE
    ELSE tick_log[i].at - tick_log[i].prev[1] > Frequency(i)

\* C1: an exception raised by the action of a due job is caught: no exception leaves
\* the run loop, the tick evaluates every job to its end, and every job registered
\* after the failing one that is due is invoked in that same tick.
C1_FailureIsolated ==
    /\ pc # "crashed"
    /\ (pc = "sleep") =>
          /\ \A i \in 1..NJobs : tick_log[i].outcome \in {"skipped", "returned", "raised"}
          /\ \A a \in 1..NJobs : \A b \in 1..NJobs :
                (a < b /\ tick_log[a].outcome = "raised" /\ WasDue(b))
                    => tick_log[b].outcome \in {"returned", "raised"}

\* a tick has ended in which a job raised and a job registered after it ran
C1_Witness ==
    /\ pc = "sleep"
    /\ \E a \in 1..NJobs : \E b \in 1..NJobs :
          a < b /\ tick_log[a].outcome = "raised" /\ tick_log[b].outcome = "returned"

\* C2: in every tick a registered job is invoked if and only if its last_run is unset
\* or more than its frequency has elapsed since last_run; with elapsed <= frequency
\* it is skipped; every job has been invoked when the first tick ends.
C2_InvokedIffDue ==
    /\ \A i \in 1..NJobs :
          /\ Invoked(i) => WasDue(i)
          /\ tick_log[i].outcome = "skipped" => ~WasDue(i)
    /\ (pc = "sleep") => \A i \in 1..NJobs : invocations[i] # <<>>

\* a job is skipped in the tick in which exactly its frequency has elapsed
C2_Witness ==
    \E i \in 1..NJobs :
        /\ tick_log[i].outcome = "skipped"
        /\ tick_log[i].at - tick_log[i].prev[1] = Frequency(i)

\* C3: an invocation that ended, by return or by exception, left last_run at the now
\* of that invocation, and two consecutive invocations of one job are more than its
\* frequency apart.
C3_LastRunAlwaysSet ==
    \A i \in 1..Len(fetch_jobs) :
        /\ tick_log[i].outcome \in {"returned", "raised"}
              => fetch_jobs[i].last_run = Some(tick_log[i].at)
        /\ (invocations[i] # <<>> /\ invocations[i][Len(invocations[i])].outcome # "running")
              => fetch_jobs[i].last_run = Some(invocations[i][Len(invocations[i])].at)
        /\ \A k \in 1..(Len(invocations[i]) - 1) :
              invocations[i][k + 1].at - invocations[i][k].at > Frequency(i)

\* a job whose action raised has been invoked again, more than its frequency later
C3_Witness ==
    \E i \in 1..NJobs :
        /\ Len(invocations[i]) >= 2
        /\ invocations[i][1].outcome = "raised"

\* C4: the writes of an action are invisible until it returns; when it raises, the
\* committed storage is what it was when the run started; when it returns, all its
\* writes are committed as one.
C4_TransactionAtomic ==
    /\ (pc = "txn") => db = snapshot
    /\ (pc # "txn" /\ ended = "raised") => db = snapshot
    /\ (pc # "txn" /\ ended = "returned") => db = Replay(snapshot, tx_log)

\* an action has raised after it had executed a statement
C4_Witness ==
    /\ pc # "txn"
    /\ ended = "raised"
    /\ tx_log # <<>>
    /\ Replay(snapshot, tx_log) # snapshot

\* C11: within a tick the jobs are evaluated in registration order and one at a time:
\* the jobs before the loop's position are done, those after it untouched, at most one
\* job is running, and the running job sees the rows every earlier job of the tick
\* committed.
C11_SequentialInOrder ==
    /\ \A i \in 1..NJobs :
          /\ (pc \in {"for", "txn"} /\ i < job) =>
                tick_log[i].outcome \in {"skipped", "returned", "raised"}
          /\ (pc \in {"for", "txn"} /\ i > job) => tick_log[i].outcome = "none"
          /\ tick_log[i].outcome = "running" <=> (pc = "txn" /\ i = job)
    /\ (pc = "for") => tick_log[job].outcome = "none"
    /\ (pc = "txn") =>
          /\ db = snapshot
          /\ \A i \in 1..(job - 1) : \A k \in 1..Len(tick_log[i].log) :
                \E row \in View(db, tx_log)[tick_log[i].log[k].q.table] :
                    SameKey(tick_log[i].log[k].q, row, tick_log[i].log[k].rec)

\* fetch_generation_hh writes a row with the id of the fuel type that fetch_fuel_types
\* committed earlier in the same tick
C11_Witness ==
    /\ pc = "txn"
    /\ fetch_jobs[job].func = "fetch_generation_hh"
    /\ \E i \in 1..(job - 1) :
          /\ fetch_jobs[i].func = "fetch_fuel_types"
          /\ tick_log[i].outcome = "returned"
          /\ tick_log[i].log # <<>>
    /\ tx_log # <<>>
    /\ \E row \in db["fuel_type"] : tx_log[1].rec["fuel_type"] = row["id"]

\* C12: a job that reads a reference table is registered, and first run, after every
\* job that populates that table: fetch_fuel_types has run before fetch_units and
\* before fetch_generation_hh run for the first time.
C12_RegistrationIsDependencyOrder ==
    \A i \in 1..Len(fetch_jobs) : \A p \in 1..Len(fetch_jobs) :
        (/\ invocations[i] # <<>>
         /\ p # i
         /\ ReadsReference(fetch_jobs[i].func) \cap Populates(fetch_jobs[p].func) # {})
            => (p < i /\ invocations[p] # <<>>)

-----------------------------------------------------------------------------
(* The stream router: BMRSClient.on_message, with PushListener's handlers  *)

\* (a slip: the first registration for a type is kept)
register_handler_first(h, message_type, handler) ==
    [t \in DOMAIN h \cup {message_type} |-> IF t \in DOMAIN h THEN h[t] ELSE handler]

\* self.handlers[message_type] = handler
register_handler(h, message_type, handler) ==
    [t \in DOMAIN h \cup {message_type} |-> IF t = message_type THEN handler ELSE h[t]]

\* the register_handler calls of PushListener.__init__, in order
HandlerRegistrations ==
    << <<"LOLPDM", "handle_lolp_dm">>,
       <<"FREQ", "handle_freq">>,
       <<"FUELINST", "handle_fuelinst">>,
       <<"SYS_WARN", "handle_sys_warn">>,
       <<"SEL", "handle_sel">>,
       <<"MEL", "handle_mel">>,
       <<"MELS", "handle_mel">>,
       <<"MIL", "handle_mil">>,
       <<"MILS", "handle_mil">>,
       <<"PN", "handle_pn">>,
       <<"FPN", "handle_pn">> >>

RECURSIVE RegisterAll(_, _)
RegisterAll(h, regs) ==
    IF regs = <<>> THEN h
    ELSE RegisterAll(register_handler(h, Head(regs)[1], Head(regs)[2]), Tail(regs))

\* BMRSClient.__init__: self.handlers = {}
NoHandlers == [t \in {} |-> ""]

\* (a slip: a default handler answers the types that have none)
GetOrDefault(h, message_type) ==
    IF message_type \in DOMAIN h THEN Some(h[message_type]) ELSE Some("handle_freq")

\* self.handlers.get(frame.headers["type"]): the handler, or None
Get(h, message_type) ==
    IF message_type \in DOMAIN h THEN Some(h[message_type]) ELSE NoneVal

\* The types of the delivered envelopes: the registered ones and two that are not.
EnvelopeTypes == {r[1] : r \in {HandlerRegistrations[i] : i \in 1..Len(HandlerRegistrations)}}
                    \cup {"BOALF", "TEMP"}

\* An element of a document: its tag, and whether the handler, given it, returns (good)
\* or raises (a field it reads is missing or malformed, or storage refuses a row).
Elements == [tag : {"msg", "other"}, good : BOOLEAN]

RECURSIVE SeqsUpTo(_, _)
SeqsUpTo(S, n) ==
    IF n = 0 THEN {<<>>}
    ELSE LET shorter == SeqsUpTo(S, n - 1)
         IN  shorter \cup {Append(q, x) : q \in shorter, x \in S}

\* The bodies of the delivered envelopes: bytes that are not UTF-8; text that is not
\* well-formed XML; a document with a root tag, what the handler does with the whole
\* document (good) and the root's children in document order.
Bodies ==
    {[kind |-> "undecodable", tag |-> "", good |-> FALSE, children |-> <<>>],
     [kind |-> "malformed", tag |-> "", good |-> FALSE, children |-> <<>>]}
    \cup {[kind |-> "xml", tag |-> "msg", good |-> g, children |-> <<>>] : g \in BOOLEAN}
    \cup {[kind |-> "xml", tag |-> "msgGrp", good |-> g, children |-> c] :
             g \in {TRUE}, c \in SeqsUpTo(Elements, MaxMsgs)}

\* message.decode("utf-8") succeeds
Decodes(body) == body.kind # "undecodable"

\* ET.fromstring succeeds
Parses(body) == body.kind = "xml"

\* doc.iter("msg") on a msgGrp root: the msg children, in document order
RECURSIVE iter_msg_from(_, _)
iter_msg_from(body, i) ==
    IF i > Len(body.children) THEN <<>>
    ELSE IF body.children[i].tag = "msg"
         THEN <<[pos |-> i, good |-> body.children[i].good]>> \o iter_msg_from(body, i + 1)
         ELSE iter_msg_from(body, i + 1)

iter_msg(body) == iter_msg_from(body, 1)

\* what on_message hands to the handler, in order: the messages of a group, or the
\* whole document (position 0)
Dispatched(body) ==
    IF body.tag = "msgGrp" THEN iter_msg(body)
    ELSE <<[pos |-> 0, good |-> body.good]>>

\* The except clause of on_message: log.exception(...), then
\* log.error("Message was: %s", message.decode("utf-8")), which decodes the body again.
ExceptClause(body) == IF Decodes(body) THEN "returned" ELSE "raised"

\* PushListener() constructed and subscribed
InitListener ==
    /\ rpc = "idle"
    /\ handlers = RegisterAll(NoHandlers, HandlerRegistrations)
    /\ envelope = [type |-> "", body |-> [kind |-> "none", tag |-> "", good |-> FALSE,
                                          children |-> <<>>]]
    /\ pending = <<>>
    /\ calls = <<>>
    /\ parsed = 0
    /\ result = "none"
    /\ written = {}
    /\ delivered = 0

InitRouter ==
    /\ InitSchedVars
    /\ InitStoreVars
    /\ InitLibVars
    /\ InitListener

RouterOnly == UNCHANGED <<schedVars, storeVars, libVars>>

\* an envelope is delivered: on_message(frame, message) starts
Delivery(t, body) ==
    /\ rpc = "idle"
    /\ delivered < MaxEnvelopes
    /\ delivered' = delivered + 1
    /\ envelope' = [type |-> t, body |-> body]
    /\ calls' = <<>>
    /\ written' = {}

\* no handler for the type: return True
OnMessageNoHandler ==
    /\ RouterOnly
    /\ \E t \in EnvelopeTypes, body \in Bodies :
          /\ Delivery(t, body)
          /\ Get(handlers, t) = NoneVal
          /\ parsed' = 0
          /\ pending' = <<>>
          /\ result' = "returned"
          /\ rpc' = "idle"
    /\ UNCHANGED handlers

\* a handler, and decode or ET.fromstring raises: the except clause runs
OnMessageParseError ==
    /\ RouterOnly
    /\ \E t \in EnvelopeTypes, body \in Bodies :
          /\ Delivery(t, body)
          /\ Get(handlers, t) # NoneVal
          /\ ~(Decodes(body) /\ Parses(body))
          /\ parsed' = IF Decodes(body) THEN 1 ELSE 0
          /\ pending' = <<>>
          /\ result' = ExceptClause(body)
          /\ rpc' = "idle"
    /\ UNCHANGED handlers

\* a handler, and the body parses: the handler loop starts
OnMessageParsed ==
    /\ RouterOnly
    /\ \E t \in EnvelopeTypes, body \in Bodies :
          /\ Delivery(t, body)
          /\ Get(handlers, t) # NoneVal
          /\ Decodes(body) /\ Parses(body)
          /\ parsed' = 1
          /\ pending' = Dispatched(body)
          /\ result' = IF Dispatched(body) = <<>> THEN "returned" ELSE "none"
          /\ rpc' = IF Dispatched(body) = <<>> THEN "idle" ELSE "dispatch"
    /\ UNCHANGED handlers

\* await handler(msg) returns: the rows of the message are written
HandlerReturns ==
    /\ RouterOnly
    /\ rpc = "dispatch"
    /\ Head(pending).good
    /\ calls' = Append(calls, <<Get(handlers, envelope.type)[1], Head(pending).pos>>)
    /\ written' = written \cup {Head(pending).pos}
    /\ pending' = Tail(pending)
    /\ result' = IF Tail(pending) = <<>> THEN "returned" ELSE "none"
    /\ rpc' = IF Tail(pending) = <<>> THEN "idle" ELSE "dispatch"
    /\ UNCHANGED <<handlers, envelope, parsed, delivered>>

\* (a slip: the try statement inside the for loop, which goes on after a failure)
for_continues(p) == Tail(p)

\* the exception leaves the for loop of on_message: the messages not yet iterated are
\* not handled
for_left(p) == <<>>

\* await handler(msg) raises: the except clause runs, the rest of the group is dropped
HandlerRaises ==
    /\ RouterOnly
    /\ rpc = "dispatch"
    /\ ~Head(pending).good
    /\ calls' = Append(calls, <<Get(handlers, envelope.type)[1], Head(pending).pos>>)
    /\ pending' = for_left(pending)
    /\ result' = ExceptClause(envelope.body)
    /\ rpc' = "idle"
    /\ UNCHANGED <<handlers, envelope, parsed, written, delivered>>

NextRouter ==
    \/ OnMessageNoHandler
    \/ OnMessageParseError
    \/ OnMessageParsed
    \/ HandlerReturns
    \/ HandlerRaises

SpecRouter == InitRouter /\ [][NextRouter]_vars

-----------------------------------------------------------------------------
(* Properties of the stream router                                         *)

RegisteredTypes == {HandlerRegistrations[i][1] : i \in 1..Len(HandlerRegistrations)}

\* the handler the registrations leave for a type: the last one registered for it
RegisteredHandler(t) ==
    LET last == CHOOSE i \in 1..Len(HandlerRegistrations) :
                    /\ HandlerRegistrations[i][1] = t
                    /\ \A j \in 1..Len(HandlerRegistrations) :
                          HandlerRegistrations[j][1] = t => j <= i
    IN  HandlerRegistrations[last][2]

\* on_message has ended for an envelope with a registered type and a body that parsed
Handled ==
    /\ delivered > 0
    /\ result # "none"
    /\ envelope.type \in RegisteredTypes
    /\ envelope.body.kind = "xml"

RECURSIVE Ascending(_)
Ascending(S) ==
    IF S = {} THEN <<>>
    ELSE LET m == CHOOSE x \in S : \A y \in S : x <= y
         IN  <<m>> \o Ascending(S \ {m})

\* the positions of the messages of the envelope, in document order: the msg children
\* of a group, or the whole document (position 0)
Messages(body) ==
    IF body.tag = "msgGrp"
    THEN Ascending({i \in 1..Len(body.children) : body.children[i].tag = "msg"})
    ELSE <<0>>

CallsFor(t, ms) == [k \in 1..Len(ms) |-> <<RegisteredHandler(t), ms[k]>>]

\* C8: for an envelope with a registered type, the handler is invoked exactly N times
\* for a group of N messages, once per message in document order, and exactly once for
\* a body that is no group.
C8_HandlerInvokedExactlyN ==
    Handled => calls = CallsFor(envelope.type, Messages(envelope.body))

\* C9: for an envelope with a registered type, whatever its body and
\* whatever the handler raises, on_message does not raise and leaves the router as it
\* was.
C9_OnMessageNeverRaises ==
    (delivered > 0 /\ envelope.type \in RegisteredTypes) =>
        /\ result # "raised"
        /\ handlers = RegisterAll(NoHandlers, HandlerRegistrations)

\* C10: an envelope whose type has no registered handler causes no handler invocation,
\* no parsing, no write and no error: on_message returns and the router is unchanged.
C10_UnknownTypeDropped ==
    (delivered > 0 /\ envelope.type \notin RegisteredTypes) =>
        /\ calls = <<>>
        /\ parsed = 0
        /\ written = {}
        /\ result = "returned"
        /\ rpc = "idle"
        /\ pending = <<>>
        /\ handlers = RegisterAll(NoHandlers, HandlerRegistrations)

\* an envelope of an unregistered type, whose body is a group with a message, was dropped
C10_Witness ==
    /\ delivered > 0
    /\ envelope.type = "BOALF"
    /\ envelope.body.tag = "msgGrp"
    /\ Len(Messages(envelope.body)) > 0
    /\ result = "returned"

-----------------------------------------------------------------------------
(* The statements against the storage: each statement of a task or handler  *)
(* is executed with the records it is given.                                *)

Vals == 1..MaxVal

\* the statements the registered tasks execute
TaskStatements ==
    {participant_stmt, bm_unit_units_stmt, bm_unit_detail_stmt, fuel_type_insert_stmt,
     fuel_type_update_stmt, wikidata_plants_stmt, wd_bm_unit_stmt, system_demand_stmt,
     carbon_intensity_national_stmt, carbon_intensity_national_forecast_stmt,
     initial_demand_outturn_stmt, generation_by_fuel_type_hh_stmt,
     embedded_generation_stmt, embedded_generation_forecast_stmt, demand_forecast_stmt,
     pv_live_stmt}

\* the statements the stream handlers execute
HandlerStatements ==
    {frequency_stmt, fuelinst_stmt, system_warning_stmt, stable_export_limit_stmt,
     maximum_export_limit_stmt, maximum_import_limit_stmt, physical_notification_stmt,
     lolp_dm_stmt}

\* the parameters of a statement
RecCols(q) == q.ins \cup q.key \cup q.set

\* the parameter dictionaries a statement is executed with: the key columns vary
\* independently, the SET columns carry one value and the INSERT-only columns another;
\* interconnector is the literal TRUE
Records(q) ==
    {[c \in RecCols(q) |->
        IF c \in q.key THEN k[c]
        ELSE IF c = "interconnector" THEN 1
        ELSE IF c \in q.set THEN m ELSE a] :
     k \in [q.key -> Vals], m \in Vals, a \in Vals}

InitStore ==
    /\ InitSchedVars
    /\ InitRouterVars
    /\ InitLibVars
    /\ stmt \in TaskStatements \cup HandlerStatements
    /\ rows = {}
    /\ before = {}
    /\ applied = <<>>
    /\ wr = <<>>

StoreOnly == UNCHANGED <<schedVars, routerVars, libVars>>

Executed(rec) ==
    /\ Len(applied) < MaxWrites
    /\ before' = rows
    /\ rows' = ExecStatement(stmt, rows, rec).rows
    /\ applied' = Append(applied, [rec |-> rec, ok |-> ExecStatement(stmt, rows, rec).ok])
    /\ UNCHANGED <<stmt, wr>>

\* a task's await self.db.execute(...) / execute_many(...) for one record; a refused
\* statement raises to the task and leaves the table as it was
TaskExecute ==
    /\ StoreOnly
    /\ stmt \in TaskStatements
    /\ \E rec \in Records(stmt) : Executed(rec)

\* a handler's await self.db.execute_many(...) for one record
HandlerExecute ==
    /\ StoreOnly
    /\ stmt \in HandlerStatements
    /\ \E rec \in Records(stmt) : Executed(rec)

NextStore ==
    \/ TaskExecute
    \/ HandlerExecute

SpecStore == InitStore /\ [][NextStore]_vars

-----------------------------------------------------------------------------
(* A poll task and a stream handler write one table at the same time:       *)
(* fetch_generation_inst, run as run() runs a job (inside a transaction),   *)
(* and handle_fuelinst, whose statements commit one by one.                 *)

RaceTable == "generation_by_fuel_type_inst"

\* the rows of one FUELINST timestamp, as either source reports them
RaceRecords == {rec \in Records(fuelinst_stmt) : rec["time"] = 1}

RaceDb(tbl) == [t \in {RaceTable} |-> tbl]

\* the open transaction holds the row lock of every key it has written
Locked(rec) ==
    /\ wr.ppc = "txn"
    /\ \E k \in 1..Len(wr.plog) : SameKey(wr.plog[k].q, wr.plog[k].rec, rec)

InitRace ==
    /\ InitSchedVars
    /\ InitRouterVars
    /\ InitLibVars
    /\ stmt = <<>>
    /\ rows = {}
    /\ before = {}
    /\ applied = <<>>
    /\ wr = [ppc |-> "idle", plog |-> <<>>, pfailed |-> FALSE, sn |-> 0,
             sfailed |-> FALSE, wrote |-> {}, overlapped |-> FALSE]

RaceOnly == UNCHANGED <<schedVars, routerVars, libVars, stmt, before, applied>>

\* async with self.db.db.transaction(): the job starts
PollBegin ==
    /\ RaceOnly
    /\ wr.ppc = "idle"
    /\ wr' = [wr EXCEPT !.ppc = "txn"]
    /\ UNCHANGED rows

\* one row of fetch_generation_inst's execute_many, inside the transaction; a refused
\* statement raises and the transaction rolls back
PollExecute ==
    /\ RaceOnly
    /\ wr.ppc = "txn"
    /\ Len(wr.plog) < MaxBatch
    /\ \E rec \in RaceRecords :
          wr' = IF ExecStatement(generation_by_fuel_type_inst_stmt,
                                 View(RaceDb(rows), wr.plog)[RaceTable], rec).ok
                THEN [wr EXCEPT !.plog = Append(@, [q |-> generation_by_fuel_type_inst_stmt,
                                                    rec |-> rec])]
                ELSE [wr EXCEPT !.ppc = "rolledback", !.plog = <<>>, !.pfailed = TRUE]
    /\ rows' = Rollback(RaceDb(rows), wr.plog)[RaceTable]

\* the job returns: the transaction commits
PollCommit ==
    /\ RaceOnly
    /\ wr.ppc = "txn"
    /\ rows' = Commit(RaceDb(rows), wr.plog)[RaceTable]
    /\ wr' = [wr EXCEPT !.ppc = "committed", !.plog = <<>>,
                        !.wrote = @ \cup {wr.plog[k].rec : k \in 1..Len(wr.plog)}]

\* the job raises for a reason of its own: the transaction rolls back
PollRollback ==
    /\ RaceOnly
    /\ wr.ppc = "txn"
    /\ rows' = Rollback(RaceDb(rows), wr.plog)[RaceTable]
    /\ wr' = [wr EXCEPT !.ppc = "rolledback", !.plog = <<>>]

\* one row of handle_fuelinst's execute_many: it waits for the lock of its key, then
\* commits by itself
StreamExecute ==
    /\ RaceOnly
    /\ wr.sn < MaxBatch
    /\ \E rec \in RaceRecords :
          /\ ~Locked(rec)
          /\ rows' = ExecStatement(fuelinst_stmt, rows, rec).rows
          /\ wr' = IF ExecStatement(fuelinst_stmt, rows, rec).ok
                   THEN [wr EXCEPT !.sn = @ + 1, !.wrote = @ \cup {rec},
                                   !.overlapped = @ \/ wr.ppc = "txn"]
                   ELSE [wr EXCEPT !.sn = @ + 1, !.sfailed = TRUE]

NextRace ==
    \/ PollBegin
    \/ PollExecute
    \/ PollCommit
    \/ PollRollback
    \/ StreamExecute

SpecRace == InitRace /\ [][NextRace]_vars

-----------------------------------------------------------------------------
(* Properties of the writes                                                *)

\* the key that identifies a measurement, and the fields that carry it; the settlement
\* date and period are functions of the time
NaturalKey(table) == Columns(table) \cap {"time", "fuel_type", "unit"}
Measured(table) ==
    Columns(table) \ (NaturalKey(table) \cup {"settlement_date", "settlement_period"})
TimeSeries(table) == "time" \in Columns(table)

LastWrite == applied[Len(applied)]

WithKey(tbl, key, rec) == {row \in tbl : \A c \in key : row[c] = rec[c]}

C7_WriteTouchesOnlyItsRow ==
    applied # <<>> =>
        /\ \A row \in before :
              WithKey({LastWrite.rec}, stmt.key, row) = {} => row \in rows
        /\ \A row \in before : WithKey(rows, stmt.key, row) # {}

\* C6: when the poll task and the stream handler write the same key at the same time,
\* neither write is refused, the table holds one row per key, and every row is a row
\* one of the two writers wrote.
C6_RaceLeavesOneRow ==
    /\ ~wr.pfailed
    /\ ~wr.sfailed
    /\ \A r1 \in rows, r2 \in rows :
          (\A c \in NaturalKey(RaceTable) : r1[c] = r2[c]) => r1 = r2
    /\ \A row \in rows : row \in wr.wrote

\* the handler wrote while the task's transaction was open, both wrote the same key with
\* different values, the transaction committed, and the key has one row
C6_Witness ==
    /\ wr.ppc = "committed"
    /\ wr.overlapped
    /\ \E a \in wr.wrote, b \in wr.wrote :
          /\ a # b
          /\ \A c \in NaturalKey(RaceTable) : a[c] = b[c]
          /\ Cardinality(WithKey(rows, NaturalKey(RaceTable), a)) = 1

-----------------------------------------------------------------------------
(* The callers of get_fuel_type: fetch_generation_hh, run by run() inside a *)
(* transaction, and handle_fuelinst, called by on_message. Each builds the  *)
(* whole list of values, one get_fuel_type per row, before execute_many.    *)

\* the fuel_type table as fetch_fuel_types leaves it for n fuel types
FuelTypes(n) ==
    {[id |-> n + 1 - r, ref |-> r, name |-> 0, interconnector |-> 0] : r \in 1..n}

\* the list comprehension of the values: [ok, ids, cache]; it stops at the first
\* get_fuel_type that raises
RECURSIVE BuildValues(_, _, _)
BuildValues(cache, tbl, refs) ==
    IF refs = <<>> THEN [ok |-> TRUE, ids |-> <<>>, cache |-> cache]
    ELSE LET g == get_fuel_type(cache, tbl, Head(refs))
         IN  IF ~g.ok THEN [ok |-> FALSE, ids |-> <<>>, cache |-> g.cache]
             ELSE LET rest == BuildValues(g.cache, tbl, Tail(refs))
                  IN  [ok |-> rest.ok, ids |-> <<g.id>> \o rest.ids, cache |-> rest.cache]

HhValues(ids) ==
    [k \in 1..Len(ids) |->
        [time |-> 1, settlement_period |-> 1, fuel_type |-> ids[k], generation |-> 1]]

InstValues(ids) ==
    [k \in 1..Len(ids) |-> [time |-> 1, fuel_type |-> ids[k], generation |-> 1]]

\* execute_many outside a transaction: every row commits by itself
RECURSIVE execute_many_autocommit(_, _, _)
execute_many_autocommit(tbl, q, recs) ==
    IF recs = <<>> THEN tbl
    ELSE execute_many_autocommit(ExecStatement(q, tbl, Head(recs)).rows, q, Tail(recs))

\* the fuelType / FT fields of the rows of one response or message
BatchRefs == SeqsUpTo(1..(MaxVal + 1), MaxBatch)

\* a message on_message has decoded and parsed
ParsedBody == [kind |-> "xml", tag |-> "msg", good |-> FALSE, children |-> <<>>]

\* one process: the fetcher (ElexonFetcher, the router off) or the listener
\* (PushListener); each has its own DB object and so its own cache
InitBatch ==
    /\ InitSchedVarsWith([[t \in Tables |-> {}] EXCEPT !["fuel_type"] = FuelTypes(MaxVal)])
    /\ InitRouterVars \/ InitListener
    /\ InitStoreVars
    /\ InitLibVars

BatchOnly ==
    UNCHANGED <<clock, pc, fetch_jobs, job, now, step, failures, tick_log, invocations,
                routerVars, stmt, applied, wr, hist>>

\* run() runs fetch_generation_hh on a response whose rows name the fuel types refs
TaskBatch ==
    /\ BatchOnly
    /\ rpc = "off"
    /\ \E refs \in BatchRefs :
       \E v \in {BuildValues(fuel_cache, db["fuel_type"], refs)} :
       \E r \in {execute_many(db, <<>>, generation_by_fuel_type_hh_stmt, HhValues(v.ids))} :
          /\ call' = [fn |-> "fetch_generation_hh", refs |-> refs]
          /\ fuel_cache' = v.cache
          /\ snapshot' = db
          /\ tx_log' = IF v.ok THEN r.log ELSE <<>>
          /\ db' = IF v.ok /\ r.ok THEN Commit(db, r.log) ELSE Rollback(db, r.log)
          /\ ended' = IF v.ok /\ r.ok THEN "returned" ELSE "raised"
          /\ ret' = [ok |-> v.ok /\ r.ok,
                     error |-> IF v.ok THEN "" ELSE "Missing fuel type",
                     executed |-> IF v.ok THEN Len(r.log) ELSE 0,
                     caught |-> Catches("Exception")]
    /\ UNCHANGED <<rows, before>>

\* on_message calls handle_fuelinst on a message whose rows name the fuel types refs
HandlerBatch ==
    /\ BatchOnly
    /\ rpc = "idle"
    /\ \E refs \in BatchRefs :
       \E v \in {BuildValues(fuel_cache, db["fuel_type"], refs)} :
          /\ call' = [fn |-> "handle_fuelinst", refs |-> refs]
          /\ fuel_cache' = v.cache
          /\ before' = rows
          /\ rows' = IF v.ok
                     THEN execute_many_autocommit(rows, fuelinst_stmt, InstValues(v.ids))
                     ELSE rows
          /\ ret' = [ok |-> v.ok,
                     error |-> IF v.ok THEN "" ELSE "Missing fuel type",
                     executed |-> IF v.ok THEN Len(v.ids) ELSE 0,
                     caught |-> ExceptClause(ParsedBody) = "returned"]
    /\ UNCHANGED <<db, tx_log, snapshot, ended>>

NextBatch ==
    \/ TaskBatch
    \/ HandlerBatch

SpecBatch == InitBatch /\ [][NextBatch]_vars

\* the refs of a call that the fuel_type table does not hold
AbsentRefs(refs) ==
    {refs[k] : k \in 1..Len(refs)} \ {row["ref"] : row \in db["fuel_type"]}

\* C13: get_fuel_type for a ref absent from fuel_type raises "Missing fuel type" and
\* inserts nothing into fuel_type; the task or handler that called it fails as a
\* whole, having written no row of its batch, and the failure is caught by its caller.
C13_MissingFuelTypeFailsWhole ==
    /\ db["fuel_type"] = FuelTypes(MaxVal)
    /\ \A k \in 1..Len(fuel_cache) :
          \E row \in db["fuel_type"] : <<row["ref"], row["id"]>> = fuel_cache[k]
    /\ (call # <<>> /\ AbsentRefs(call.refs) # {}) =>
          /\ ~ret.ok
          /\ ret.error = "Missing fuel type"
          /\ ret.executed = 0
          /\ ret.caught
          /\ call.fn = "fetch_generation_hh" => (db = snapshot /\ ended = "raised")
          /\ call.fn = "handle_fuelinst" => rows = before

\* a batch whose first row names a known fuel type and whose second row names a missing
\* one has failed, over a table that held rows
C13_Witness ==
    /\ call # <<>>
    /\ Len(call.refs) = 2
    /\ AbsentRefs(<<call.refs[1]>>) = {}
    /\ AbsentRefs(<<call.refs[2]>>) # {}
    /\ ~ret.ok
    /\ CachedAt(fuel_cache, call.refs[1]) # {}
    /\ rows # {} \/ db["generation_by_fuel_type_hh"] # {}

-----------------------------------------------------------------------------
(* DB.get_fuel_type over the life of one process: the fuel_type table holds *)
(* MaxRefs fuel types; hist keeps <<ref, id>> of the first successful       *)
(* lookup of each ref.                                                      *)

InitFuel ==
    /\ InitSchedVarsWith([[t \in Tables |-> {}] EXCEPT !["fuel_type"] = FuelTypes(MaxRefs)])
    /\ InitRouterVars
    /\ InitStoreVars
    /\ call = <<>>
    /\ ret = <<>>
    /\ hist = {}

FuelOnly ==
    UNCHANGED <<clock, pc, fetch_jobs, job, now, step, db, tx_log, failures, tick_log,
                invocations, ended, snapshot, routerVars, storeVars>>

SeenRefs == {h[1] : h \in hist}

\* the refs asked for: the first ref ever looked up, a ref never looked up before, and
\* a ref the table does not hold
LookupRefs == ({1, Cardinality(hist) + 1} \cap 1..MaxRefs) \cup {MaxRefs + 1}

Looked(ref, g) ==
    /\ call' = [fn |-> "get_fuel_type", ref |-> ref, seen |-> ref \in SeenRefs]
    /\ ret' = [ok |-> g.ok, id |-> g.id, reads |-> g.reads]
    /\ fuel_cache' = g.cache
    /\ hist' = IF g.ok /\ ref \notin SeenRefs THEN hist \cup {<<ref, g.id>>} ELSE hist

\* await self.db.get_fuel_type(ref): answered by the cache
GetFuelTypeCached ==
    /\ FuelOnly
    /\ \E ref \in LookupRefs : \E g \in {get_fuel_type(fuel_cache, db["fuel_type"], ref)} :
          /\ g.reads = 0
          /\ Looked(ref, g)

\* ... answered by storage, and cached
GetFuelTypeRead ==
    /\ FuelOnly
    /\ \E ref \in LookupRefs : \E g \in {get_fuel_type(fuel_cache, db["fuel_type"], ref)} :
          /\ g.reads > 0 /\ g.ok
          /\ Looked(ref, g)

\* ... not in storage: raises
GetFuelTypeMissing ==
    /\ FuelOnly
    /\ \E ref \in LookupRefs : \E g \in {get_fuel_type(fuel_cache, db["fuel_type"], ref)} :
          /\ ~g.ok
          /\ Looked(ref, g)

NextFuel ==
    \/ GetFuelTypeCached
    \/ GetFuelTypeRead
    \/ GetFuelTypeMissing

SpecFuel == InitFuel /\ [][NextFuel]_vars

\* C14: the first successful get_fuel_type of a ref reads storage once, and every later
\* get_fuel_type of that ref returns the same id without reading storage, whatever
\* and however many other refs were looked up in between.
C14_CacheNeverEvicts ==
    call # <<>> =>
        /\ (ret.ok /\ ~call.seen) => ret.reads = 1
        /\ call.seen => (ret.ok /\ ret.reads = 0 /\ <<call.ref, ret.id>> \in hist)

-----------------------------------------------------------------------------
(* settlement_periods.sp_to_datetime.  A date is a day of the year 2022, an  *)
(* instant or a wall-clock reading is a number of minutes since              *)
(* 2022-01-01 00:00 (UTC or local).                                          *)

\* Europe/London in 2022: clocks go forward on 27 March and back on 30 October
SpringForwardDay == 86
FallBackDay == 303
\* the date of test_settlement_periods: 2022-10-09
TestDay == 282

MaxPeriod == 51
Periods == 0..MaxPeriod
Dates == {1, 365, TestDay} \cup (SpringForwardDay - 2)..(SpringForwardDay + 2)
                           \cup (FallBackDay - 2)..(FallBackDay + 2)

\* datetime.combine(settlement_date, time(0, 0, 0), tzinfo=TZ): the wall-clock reading
WallMidnight(d) == (d - 1) * 1440

\* TZ.utcoffset of a wall-clock reading with fold = 0: a reading in the skipped hour
\* takes the offset before the change, one in the repeated hour its first occurrence
utcoffset(wall) ==
    IF WallMidnight(SpringForwardDay) + 120 <= wall /\ wall < WallMidnight(FallBackDay) + 120
    THEN 60 ELSE 0

\* .astimezone(UTC)
astimezone_utc(wall) == wall - utcoffset(wall)

\* the periods counted in absolute time from local midnight
sp_to_datetime_absolute(settlement_date, settlement_period) ==
    astimezone_utc(WallMidnight(settlement_date)) + (settlement_period - 1) * 30

\* aware datetime + timedelta adds to the wall-clock reading and keeps tzinfo
sp_to_datetime(settlement_date, settlement_period) ==
    astimezone_utc(WallMidnight(settlement_date) + (settlement_period - 1) * 30)

\* Europe/London seen from UTC: summer time from 01:00Z of the spring day to 01:00Z of
\* the autumn day
LocalTime(utc) ==
    IF WallMidnight(SpringForwardDay) + 60 <= utc /\ utc < WallMidnight(FallBackDay) + 60
    THEN utc + 60 ELSE utc
LocalDate(utc) == (LocalTime(utc) \div 1440) + 1
LocalTimeOfDay(utc) == LocalTime(utc) % 1440

\* the number of half hours of the local day d
PeriodsOf(d) == (astimezone_utc(WallMidnight(d + 1)) - astimezone_utc(WallMidnight(d))) \div 30

InitPeriods ==
    /\ InitSchedVars
    /\ InitRouterVars
    /\ InitStoreVars
    /\ InitLibVars

PeriodsOnly == UNCHANGED <<schedVars, routerVars, storeVars>>

\* sp_to_datetime(d, p) for the rows of one settlement date; hist is the call before
SpToDatetime ==
    /\ PeriodsOnly
    /\ \E d \in Dates, p \in Periods :
          /\ call # <<>> => d = call.d
          /\ call' = [fn |-> "sp_to_datetime", d |-> d, p |-> p]
          /\ ret' = [ok |-> TRUE, at |-> sp_to_datetime(d, p)]
          /\ hist' = IF call = <<>> THEN <<>> ELSE [p |-> call.p, at |-> ret.at]

NextPeriods ==
    \/ SpToDatetime

SpecPeriods == InitPeriods /\ [][NextPeriods]_vars

\* C15: sp_to_datetime(d, p) with p < 1 or p > 48 fails instead of returning an instant
\* of the previous or the following day.
C15_OutOfRangePeriodFails ==
    (call # <<>> /\ call.p \notin 1..48) => ~ret.ok

\* C16: for the valid periods of a date (46, 48 or 50 of them) sp_to_datetime starts at
\* local midnight, maps distinct periods to distinct instants and consecutive periods
\* to instants 30 minutes apart.
C16_PeriodsHalfHourApart ==
    (call # <<>> /\ call.p \in 1..PeriodsOf(call.d)) =>
        /\ call.p = 1 => (LocalDate(ret.at) = call.d /\ LocalTimeOfDay(ret.at) = 0)
        /\ (hist # <<>> /\ hist.p \in 1..PeriodsOf(call.d)) =>
              /\ call.p # hist.p => ret.at # hist.at
              /\ call.p = hist.p + 1 => ret.at = hist.at + 30

\* C17: sp_to_datetime(d, 1) is local midnight of d and sp_to_datetime(d, 48) is local
\* 23:30 of d, for every date; for 2022-10-09 these are 2022-10-08 23:00Z and
\* 2022-10-09 22:30Z.
C17_FirstAndLastPeriod ==
    call # <<>> =>
        /\ call.p = 1 => (LocalDate(ret.at) = call.d /\ LocalTimeOfDay(ret.at) = 0)
        /\ call.p = 48 => (LocalDate(ret.at) = call.d /\ LocalTimeOfDay(ret.at) = 23 * 60 + 30)
        /\ (call.d = TestDay /\ call.p = 1) => ret.at = WallMidnight(TestDay) - 60
        /\ (call.d = TestDay /\ call.p = 48) => ret.at = WallMidnight(TestDay) + 23 * 60 + 30 - 60

C17_Witness ==
    /\ call # <<>> /\ hist # <<>>
    /\ call.d = SpringForwardDay
    /\ hist.p = 1 /\ call.p = 48
    /\ ret.at = WallMidnight(SpringForwardDay) + 22 * 60 + 30

-----------------------------------------------------------------------------
(* push_listener.unit_from_subject.  A subject is a string: a sequence over  *)
(* the separator "." and a few words that hold no separator.                 *)

MaxSubjectLen == 5
SubjectWords == {".", "DYNAMIC", "BM", "RR", "BMRA"}
Subjects == SeqsUpTo(SubjectWords, MaxSubjectLen)

\* subject.split("."): at least one part, empty parts kept
RECURSIVE split(_)
split(s) ==
    IF \A k \in 1..Len(s) : s[k] # "." THEN <<s>>
    ELSE LET k == CHOOSE i \in 1..Len(s) : s[i] = "." /\ \A j \in 1..(i - 1) : s[j] # "."
         IN  <<SubSeq(s, 1, k - 1)>> \o split(SubSeq(s, k + 1, Len(s)))

UnitSegments == {<<"DYNAMIC">>, <<"BM">>, <<"RR">>}

IndexError == [ok |-> FALSE, value |-> NoneVal]

unit_from_subject(subject) ==
    LET parts == split(subject)
    IN  IF Len(parts) < 2 THEN IndexError
        ELSE IF parts[2] \in UnitSegments
             THEN IF Len(parts) < 3 THEN IndexError
                  ELSE [ok |-> TRUE, value |-> Some(parts[3])]
             ELSE [ok |-> TRUE, value |-> NoneVal]

InitSubject ==
    /\ InitSchedVars
    /\ InitRouterVars
    /\ InitStoreVars
    /\ call \in {[fn |-> "unit_from_subject", subject |-> s] : s \in Subjects}
    /\ ret = <<>>
    /\ hist = <<>>

SubjectOnly == UNCHANGED <<schedVars, routerVars, storeVars, call, hist>>

\* unit_from_subject(subject) returns a unit or None
UnitFromSubject ==
    /\ SubjectOnly
    /\ ret = <<>>
    /\ \E r \in {unit_from_subject(call.subject)} :
          /\ r.ok
          /\ ret' = r

\* unit_from_subject(subject) raises IndexError
UnitFromSubjectRaises ==
    /\ SubjectOnly
    /\ ret = <<>>
    /\ \E r \in {unit_from_subject(call.subject)} :
          /\ ~r.ok
          /\ ret' = r

NextSubject ==
    \/ UnitFromSubject
    \/ UnitFromSubjectRaises

SpecSubject == InitSubject /\ [][NextSubject]_vars

\* C18: unit_from_subject raises for no subject; it returns the third segment when the
\* second segment is DYNAMIC, BM or RR, and None for every other subject.
C18_UnitFromSubjectTotal ==
    ret # <<>> =>
        LET parts == split(call.subject)
        IN  /\ ret.ok
            /\ IF Len(parts) >= 3 /\ parts[2] \in UnitSegments
               THEN ret.value = Some(parts[3])
               ELSE (Len(parts) < 2 \/ parts[2] \notin UnitSegments) => ret.value = NoneVal

-----------------------------------------------------------------------------
(* BMRSClient.register_handler and the lookup of on_message.  hist is the    *)
(* sequence of the register_handler calls made so far.                       *)

MaxRegs == 3
\* the further registrations: a type the listener registers and one it does not
RegTypes == {"MEL", "BOALF"}
RegHandlers == {"handle_mel", "handle_pn"}

\* a bare BMRSClient, or the client of a PushListener
InitRegistry ==
    /\ InitSchedVars
    /\ InitStoreVars
    /\ call = <<>>
    /\ ret = <<>>
    /\ \/ InitRouterVars /\ hist = <<>>
       \/ InitListener /\ hist = HandlerRegistrations

RegistryOnly ==
    UNCHANGED <<schedVars, storeVars, rpc, envelope, pending, calls, parsed, result,
                written, delivered>>

Registered == IF rpc = "idle" THEN Len(hist) - Len(HandlerRegistrations) ELSE Len(hist)

\* client.register_handler(message_type, handler)
RegisterHandler ==
    /\ RegistryOnly
    /\ Registered < MaxRegs
    /\ \E message_type \in RegTypes, handler \in RegHandlers :
          /\ handlers' = register_handler(handlers, message_type, handler)
          /\ hist' = Append(hist, <<message_type, handler>>)
    /\ UNCHANGED <<call, ret>>

\* on_message: handler = self.handlers.get(frame.headers["type"])
LookupHandler ==
    /\ RegistryOnly
    /\ \E type \in EnvelopeTypes :
          /\ call' = [fn |-> "on_message", type |-> type, regs |-> Len(hist)]
          /\ ret' = Get(handlers, type)
    /\ UNCHANGED <<handlers, hist>>

NextRegistry ==
    \/ RegisterHandler
    \/ LookupHandler

SpecRegistry == InitRegistry /\ [][NextRegistry]_vars

\* the handler of the last of the calls regs that names message_type, or None
LastRegistered(regs, message_type) ==
    LET at == {k \in 1..Len(regs) : regs[k][1] = message_type}
    IN  IF at = {} THEN NoneVal
        ELSE Some(regs[CHOOSE k \in at : \A j \in at : j <= k][2])

\* C19: after any sequence of register_handler calls each type has the handler of the
\* last call that named it (a call for one type changes no other type), on_message
\* looks up that handler, and in the listener MEL and MELS reach handle_mel, PN and
\* FPN handle_pn, MIL and MILS handle_mil.
C19_LastRegistrationWins ==
    /\ \A t \in EnvelopeTypes \cup DOMAIN handlers : Get(handlers, t) = LastRegistered(hist, t)
    /\ call # <<>> => ret = LastRegistered(SubSeq(hist, 1, call.regs), call.type)
    /\ (rpc = "idle" /\ call # <<>> /\ call.regs = Len(HandlerRegistrations)) =>
          /\ call.type \in {"MEL", "MELS"} => ret = Some("handle_mel")
          /\ call.type \in {"PN", "FPN"} => ret = Some("handle_pn")
          /\ call.type \in {"MIL", "MILS"} => ret = Some("handle_mil")

C19_Witness ==
    /\ rpc = "idle"
    /\ Registered = 2
    /\ hist[Len(hist) - 1] = <<"MEL", "handle_pn">>
    /\ hist[Len(hist)] = <<"BOALF", "handle_mel">>
    /\ call # <<>> /\ call.type = "MEL" /\ call.regs = Len(hist)
    /\ ret = Some("handle_pn")
    /\ Get(handlers, "MELS") = Some("handle_mel")

-----------------------------------------------------------------------------
(* The run loop without a bound on time, seen from one job.  hist names the  *)
(* job that is watched and says whether its action raises on every           *)
(* invocation.  Times are relative to the present instant (clock stays 0):   *)
(* the last_run of the watched job is within its frequency (Some(0)) or past *)
(* it (Some(-frequency - 1)); for the other jobs the time since last_run is  *)
(* left open, so their due check may go either way once they have run.      *)

InitLive ==
    /\ InitSchedVars
    /\ InitRouterVars
    /\ InitStoreVars
    /\ call = <<>>
    /\ ret = <<>>
    /\ hist \in [job : 1..NJobs, fails : BOOLEAN]

LiveOnly ==
    UNCHANGED <<clock, step, db, tx_log, fuel_cache, failures, tick_log, invocations,
                ended, snapshot, routerVars, storeVars, libVars>>

\* the due check fails: the loop moves on
LiveSkip ==
    /\ LiveOnly
    /\ pc = "for"
    /\ IF job = hist.job THEN ~IsDue(fetch_jobs[job], clock)
       ELSE fetch_jobs[job].last_run # NoneVal
    /\ now' = clock
    /\ pc' = NextPc(job)
    /\ job' = NextJob(job)
    /\ UNCHANGED fetch_jobs

\* the due check holds: the action is invoked
LiveStart ==
    /\ LiveOnly
    /\ pc = "for"
    /\ job = hist.job => IsDue(fetch_jobs[job], clock)
    /\ now' = clock
    /\ pc' = "txn"
    /\ UNCHANGED <<fetch_jobs, job>>

\* the action returns
LiveReturn ==
    /\ LiveOnly
    /\ pc = "txn"
    /\ ~(job = hist.job /\ hist.fails)
    /\ fetch_jobs' = SetLastRun(fetch_jobs, job, now, FALSE)
    /\ pc' = NextPc(job)
    /\ job' = NextJob(job)
    /\ UNCHANGED now

\* the action raises
LiveRaise ==
    /\ LiveOnly
    /\ pc = "txn"
    /\ IF Catches("Exception")
       THEN /\ fetch_jobs' = SetLastRun(fetch_jobs, job, now, TRUE)
            /\ pc' = NextPc(job)
            /\ job' = NextJob(job)
       ELSE /\ pc' = "crashed"
            /\ UNCHANGED <<fetch_jobs, job>>
    /\ UNCHANGED now

\* time passes, while an action runs or during the sleep: utcnow() - last_run of the
\* watched job exceeds its frequency
LiveExpire ==
    /\ LiveOnly
    /\ pc \in {"txn", "sleep"}
    /\ fetch_jobs[hist.job].last_run # NoneVal
    /\ ~IsDue(fetch_jobs[hist.job], clock)
    /\ fetch_jobs' = [fetch_jobs EXCEPT
                         ![hist.job].last_run = Some(clock - fetch_jobs[hist.job].frequency - 1)]
    /\ UNCHANGED <<pc, job, now>>

\* await asyncio.sleep(2) returns: the next tick
LiveSleep ==
    /\ LiveOnly
    /\ pc = "sleep"
    /\ pc' = "for"
    /\ job' = 1
    /\ UNCHANGED <<fetch_jobs, now>>

LiveLoop ==
    \/ Connect
    \/ Register
    \/ LiveSkip
    \/ LiveStart
    \/ LiveReturn
    \/ LiveRaise
    \/ LiveSleep

NextLive ==
    \/ Connect
    \/ Register
    \/ LiveSkip
    \/ LiveStart
    \/ LiveReturn
    \/ LiveRaise
    \/ LiveExpire
    \/ LiveSleep

\* Every step of the loop is eventually taken (each invocation terminates, each sleep
\* ends), and since every tick sleeps 2 seconds the time since a last_run exceeds any
\* frequency after finitely many ticks.
SpecLive ==
    /\ InitLive
    /\ [][NextLive]_vars
    /\ WF_vars(LiveLoop)
    /\ SF_vars(LiveExpire)

\* C20: provided every invocation terminates, every registered job is invoked
\* infinitely often, also when its action raises on every invocation and when the
\* actions of other jobs raise.
C20_EveryJobInvokedInfinitelyOften ==
    []<>(pc = "txn" /\ job = hist.job)

C20_Witness ==
    /\ hist = [job |-> 6, fails |-> TRUE]
    /\ pc = "txn" /\ job = 6
    /\ fetch_jobs[6].last_run # NoneVal
    /\ IsDue(fetch_jobs[6], clock)

-----------------------------------------------------------------------------
(* A stream handler on one message: the values of all rows are built       *)
(* first, then execute_many runs the statement once per row, outside a     *)
(* transaction.  hist counts the messages handled.                         *)

\* the text of a numeric element of a row: a number, a number no column can hold,
\* text that is no number, or no element at all
FieldTexts == {"1", "99999999999999999999", "x", "absent"}

\* the value a stored column cannot hold
TooBig == MaxVal + 2

\* int(row.find(tag).text) / float(...): [ok, value]; a missing element raises
\* AttributeError, text that is no number ValueError
Converted(text) ==
    CASE text = "1" -> [ok |-> TRUE, value |-> 1]
      [] text = "99999999999999999999" -> [ok |-> TRUE, value |-> TooBig]
      [] OTHER -> [ok |-> FALSE, value |-> 0]

MessageRows == [time : 1..2, field : FieldTexts]

\* values=[{...} for row in doc.iter("row")]: [ok, recs]; the comprehension raises at
\* the first row that does not convert
RECURSIVE RowValues(_, _)
RowValues(q, msg_rows) ==
    IF msg_rows = <<>> THEN [ok |-> TRUE, recs |-> <<>>]
    ELSE LET c == Converted(Head(msg_rows).field)
             rest == RowValues(q, Tail(msg_rows))
         IN  IF ~c.ok THEN [ok |-> FALSE, recs |-> <<>>]
             ELSE [ok |-> rest.ok,
                   recs |-> IF rest.ok
                            THEN <<[col \in RecCols(q) |->
                                      IF col = "time" THEN Head(msg_rows).time
                                      ELSE IF col \in q.key THEN 1 ELSE c.value]>> \o rest.recs
                            ELSE <<>>]

\* execute_many outside a transaction: one statement per row, each committed as it
\* runs; the row storage refuses raises and ends the loop: [ok, rows]
RECURSIVE execute_many_rows(_, _, _)
execute_many_rows(tbl, q, recs) ==
    IF recs = <<>> THEN [ok |-> TRUE, rows |-> tbl]
    ELSE IF \E col \in DOMAIN Head(recs) : Head(recs)[col] >= TooBig
         THEN [ok |-> FALSE, rows |-> tbl]
         ELSE execute_many_rows(ExecStatement(q, tbl, Head(recs)).rows, q, Tail(recs))

InitMessage ==
    /\ InitSchedVars
    /\ InitListener
    /\ call = <<>>
    /\ ret = <<>>
    /\ hist = 0
    /\ stmt \in {fuelinst_stmt, lolp_dm_stmt}
    /\ rows = {}
    /\ before = {}
    /\ applied = <<>>
    /\ wr = <<>>

MessageOnly == UNCHANGED <<schedVars, routerVars, stmt, applied, wr>>

HandlerEnds(msg_rows, v, w) ==
    /\ call' = [fn |-> "handler", rows |-> msg_rows]
    /\ before' = rows
    /\ rows' = w.rows
    /\ ret' = [ok |-> v.ok /\ w.ok, built |-> v.ok]
    /\ hist' = hist + 1

\* await handler(msg): every row converts and is written
HandlerWrites ==
    /\ MessageOnly
    /\ hist < MaxEnvelopes
    /\ \E msg_rows \in SeqsUpTo(MessageRows, MaxBatch) :
       \E v \in {RowValues(stmt, msg_rows)} :
       \E w \in {execute_many_rows(rows, stmt, v.recs)} :
          /\ v.ok /\ w.ok
          /\ HandlerEnds(msg_rows, v, w)

\* await handler(msg) raises: a row does not convert, or storage refuses a row
HandlerFails ==
    /\ MessageOnly
    /\ hist < MaxEnvelopes
    /\ \E msg_rows \in SeqsUpTo(MessageRows, MaxBatch) :
       \E v \in {RowValues(stmt, msg_rows)} :
       \E w \in {execute_many_rows(rows, stmt, v.recs)} :
          /\ ~(v.ok /\ w.ok)
          /\ HandlerEnds(msg_rows, v, w)

NextMessage ==
    \/ HandlerWrites
    \/ HandlerFails

SpecMessage == InitMessage /\ [][NextMessage]_vars

\* C21: the rows of one message are written all or nothing: when a row of the message
\* does not convert, or storage refuses the write of a row, no row of the message is
\* persisted.
C21_MessageAllOrNothing ==
    (call # <<>> /\ call.fn = "handler" /\ ~ret.ok) => rows = before

-----------------------------------------------------------------------------
(* The subscription and on_message.  Frames arrive at any time; the         *)
(* subscription calls on_message for one frame at a time, in arrival order. *)
(* call is the sequence of frames received, delivered the number of them    *)
(* on_message was called with, hist the handler calls in flight             *)
(* <<envelope, position>>, ret the handler calls started so far, in order.  *)

StreamBodies ==
    {b \in Bodies : \/ b.kind = "malformed"
                    \/ b.tag = "msg" /\ b.good
                    \/ b.tag = "msgGrp" /\ Len(b.children) = MaxMsgs
                         /\ \A k \in 1..Len(b.children) :
                               b.children[k].tag = "msg" /\ (b.children[k].good <=> k > 1)
                    \/ b.tag = "msgGrp" /\ Len(b.children) = MaxMsgs
                         /\ \A k \in 1..Len(b.children) :
                               b.children[k].tag = "msg" /\ b.children[k].good}

StreamFrames == [type : {"FREQ", "BOALF"}, body : StreamBodies]

InitStream ==
    /\ InitSchedVars
    /\ InitStoreVars
    /\ InitListener
    /\ call = <<>>
    /\ ret = <<>>
    /\ hist = {}

StreamOnly ==
    UNCHANGED <<schedVars, storeVars, handlers, calls, parsed, result, written>>

\* a MESSAGE frame arrives on the subscription
FrameReceived ==
    /\ StreamOnly
    /\ Len(call) < MaxEnvelopes
    /\ \E frame \in StreamFrames : call' = Append(call, frame)
    /\ UNCHANGED <<rpc, envelope, pending, delivered, ret, hist>>

\* on_message(frame, message) is called with the next frame: the handler lookup, and
\* the parse when there is a handler
StreamOnMessage ==
    /\ StreamOnly
    /\ rpc = "idle"
    /\ delivered < Len(call)
    /\ delivered' = delivered + 1
    /\ envelope' = call[delivered + 1]
    /\ LET frame == call[delivered + 1]
           todo == IF Get(handlers, frame.type) # NoneVal /\ Decodes(frame.body)
                      /\ Parses(frame.body)
                   THEN Dispatched(frame.body) ELSE <<>>
       IN  /\ pending' = todo
           /\ rpc' = IF todo = <<>> THEN "idle" ELSE "dispatch"
    /\ UNCHANGED <<call, ret, hist>>

\* (a slip: asyncio.create_task(handler(msg)); the loop goes on at once)
handler_spawned(p) ==
    [rpc |-> IF Tail(p) = <<>> THEN "idle" ELSE "dispatch", pending |-> Tail(p)]

\* await handler(msg): on_message is suspended until the handler ends
handler_awaited(p) ==
    [rpc |-> "await", pending |-> p]

\* the handler is called with the next message of the envelope
StreamHandlerStart ==
    /\ StreamOnly
    /\ rpc = "dispatch"
    /\ hist' = hist \cup {<<delivered, Head(pending).pos>>}
    /\ ret' = Append(ret, <<delivered, Head(pending).pos>>)
    /\ rpc' = handler_awaited(pending).rpc
    /\ pending' = handler_awaited(pending).pending
    /\ UNCHANGED <<call, envelope, delivered>>

Awaited(r) == rpc = "await" /\ r = <<delivered, Head(pending).pos>>

\* what a handler call was given
GivenTo(r) ==
    LET given == Dispatched(call[r[1]].body)
    IN  given[CHOOSE k \in 1..Len(given) : given[k].pos = r[2]]

\* a handler call returns; on_message, if it awaits it, goes on with the next message
StreamHandlerReturns ==
    /\ StreamOnly
    /\ \E r \in hist :
          /\ GivenTo(r).good
          /\ hist' = hist \ {r}
          /\ IF Awaited(r)
             THEN /\ pending' = Tail(pending)
                  /\ rpc' = IF Tail(pending) = <<>> THEN "idle" ELSE "dispatch"
             ELSE UNCHANGED <<pending, rpc>>
    /\ UNCHANGED <<call, ret, envelope, delivered>>

\* a handler call raises; on_message, if it awaits it, runs its except clause and returns
StreamHandlerRaises ==
    /\ StreamOnly
    /\ \E r \in hist :
          /\ ~GivenTo(r).good
          /\ hist' = hist \ {r}
          /\ IF Awaited(r)
             THEN /\ pending' = <<>>
                  /\ rpc' = "idle"
             ELSE UNCHANGED <<pending, rpc>>
    /\ UNCHANGED <<call, ret, envelope, delivered>>

NextStream ==
    \/ FrameReceived
    \/ StreamOnMessage
    \/ StreamHandlerStart
    \/ StreamHandlerReturns
    \/ StreamHandlerRaises

SpecStream == InitStream /\ [][NextStream]_vars

\* on_message has returned for envelope n
Finished(n) == n < delivered \/ (n = delivered /\ rpc = "idle")

\* C22: envelopes are handled one at a time and in delivery order: at most one handler
\* call is in flight and it belongs to the envelope on_message is at, the handler
\* calls start in the order of the envelopes and of their messages, and every envelope
\* with a registered type whose body holds messages has its handler called.
C22_SequentialInDeliveryOrder ==
    /\ Cardinality(hist) <= 1
    /\ \A r \in hist : Awaited(r)
    /\ delivered > 0 => envelope = call[delivered]
    /\ \A j, k \in 1..Len(ret) :
          j < k => (ret[j][1] < ret[k][1] \/ (ret[j][1] = ret[k][1] /\ ret[j][2] < ret[k][2]))
    /\ \A n \in 1..delivered :
          (/\ Finished(n)
           /\ Get(handlers, call[n].type) # NoneVal
           /\ Parses(call[n].body)
           /\ Dispatched(call[n].body) # <<>>)
          => \E k \in 1..Len(ret) : ret[k][1] = n

\* a second envelope arrived while the handler of the first was in flight, and is being
\* handled after it
C22_Witness ==
    /\ delivered = 2
    /\ rpc = "await"
    /\ Len(ret) = 3
    /\ ret[1][1] = 1 /\ ret[2][1] = 1 /\ ret[3][1] = 2

-----------------------------------------------------------------------------
(* The fetcher process receives a shutdown signal.  run() installs no       *)
(* handler and catches no cancellation: SIGINT cancels the task             *)
(* asyncio.run runs, at the await it is suspended on, SIGTERM ends the      *)
(* process there.  pc = "stopped" is the process gone.                      *)

\* The signal arrives.  Inside the transaction block the CancelledError is no Exception:
\* it passes the except clause of run() and the block rolls back on its way out (a
\* process that is killed leaves the transaction to be discarded by the server).
Shutdown ==
    /\ SchedOnly
    /\ pc \in {"for", "txn", "sleep"}
    /\ pc' = "stopped"
    /\ db' = IF pc = "txn" THEN Rollback(db, tx_log) ELSE db
    /\ UNCHANGED <<clock, fetch_jobs, job, now, step, tx_log, fuel_cache, failures,
                   tick_log, invocations, ended, snapshot>>

NextShutdown ==
    \/ Connect
    \/ Register
    \/ SkipJob
    \/ StartJob
    \/ ActionStatement
    \/ ActionReturn
    \/ ActionRaise
    \/ Sleep
    \/ Shutdown

SpecShutdown == Init /\ [][NextShutdown]_vars

\* C23: when the process has stopped on a shutdown signal, the job that was in flight
\* has run all its statements and its transaction is committed.
C23_ShutdownCompletesInFlight ==
    (pc = "stopped" /\ tick_log[job].outcome = "running") =>
        /\ step > Len(Plan(fetch_jobs[job].func))
        /\ db = View(snapshot, tx_log)

-----------------------------------------------------------------------------
(* The poll scheduler: what an invocation does to last_run                  *)

\* the step that ends the invocation of the job the loop is at
InvocationEnds == pc = "txn" /\ pc' # "txn"

\* C24: the last_run an invocation leaves is the now captured before the action
\* started, whatever time the action took; a job whose action took longer than its
\* frequency is due from then on, so at the next tick; the later jobs of the tick are
\* evaluated after the action ended, and the last_run of no other job changes.  A
\* job is skipped only while no more than its frequency has passed since that now.
C24_LastRunIsStartTime ==
    [][/\ InvocationEnds =>
            /\ fetch_jobs'[job].last_run = Some(now)
            /\ now = tick_log[job].at
            /\ (clock' - now > fetch_jobs[job].frequency) => IsDue(fetch_jobs'[job], clock')
            /\ \A j \in 1..NJobs : j # job => fetch_jobs'[j] = fetch_jobs[j]
       /\ (pc = "for" /\ pc' \in {"for", "sleep"}) =>
            /\ clock - fetch_jobs[job].last_run[1] <= fetch_jobs[job].frequency
            /\ \A j \in 1..(job - 1) : tick_log[j].at <= clock
      ]_vars

\* the action of a job took longer than the job's frequency, and the job was invoked
\* again at the next tick
C24_Witness ==
    \E i \in 1..NJobs :
        /\ LongRun > Frequency(i)
        /\ Len(invocations[i]) >= 2
        /\ invocations[i][2].at - invocations[i][1].at = LongRun + SleepSeconds

-----------------------------------------------------------------------------
(* The stream router: a handler that raises inside a group                  *)

\* the index, among the messages of a group, of the first one the handler raises on
\* (0: none)
FirstRaising(body) ==
    LET ms == Messages(body)
        bad == {k \in 1..Len(ms) : ~body.children[ms[k]].good}
    IN  IF bad = {} THEN 0 ELSE CHOOSE k \in bad : \A j \in bad : k <= j

\* C25: when the handler raises on the k-th message of a group, it was called for the
\* messages 1..k and no other, the rows of the messages 1..k-1 stay written, nothing
\* of the envelope is left to handle, and on_message returns (the envelope is
\* acknowledged: no redelivery, no retry).
C25_RaiseDropsRestOfGroup ==
    (Handled /\ envelope.body.tag = "msgGrp" /\ FirstRaising(envelope.body) > 0) =>
        LET ms == Messages(envelope.body)
            k == FirstRaising(envelope.body)
        IN  /\ calls = CallsFor(envelope.type, SubSeq(ms, 1, k))
            /\ written = {ms[j] : j \in 1..(k - 1)}
            /\ pending = <<>>
            /\ rpc = "idle"
            /\ result = "returned"

\* a group whose first message was written and whose second made the handler raise
C25_Witness ==
    /\ Handled
    /\ envelope.body.tag = "msgGrp"
    /\ Len(Messages(envelope.body)) = MaxMsgs
    /\ FirstRaising(envelope.body) = 2
    /\ written = {Messages(envelope.body)[1]}
    /\ Len(calls) = 2

-----------------------------------------------------------------------------
(* A fuel type that arrives late: the fuel_type table starts empty, run()    *)
(* runs fetch_generation_hh and fetch_fuel_types in any order in one process *)
(* and so with one lru_cache. hist is the set of the refs whose              *)
(* get_fuel_type has raised so far.                                          *)

\* the fuelType fields of the rows of one response: two fuel types, alone or together
RefillRefs == {<<1>>, <<2>>, <<1, 2>>, <<2, 1>>}

InitRefill ==
    /\ InitSchedVars
    /\ InitRouterVars
    /\ InitStoreVars
    /\ call = <<>>
    /\ ret = <<>>
    /\ hist = {}

RefillOnly ==
    UNCHANGED <<clock, pc, fetch_jobs, job, now, step, failures, tick_log, invocations,
                routerVars, storeVars>>

\* the ref whose get_fuel_type raised while the values were built: the first one that
\* is neither cached nor stored
RaisedAt(cache, tbl, refs) ==
    LET miss == {k \in 1..Len(refs) : ~get_fuel_type(cache, tbl, refs[k]).ok}
    IN  IF miss = {} THEN {} ELSE {refs[CHOOSE k \in miss : \A j \in miss : k <= j]}

\* run() runs fetch_fuel_types on a response listing the fuel types refs: the INSERT
\* ... ON CONFLICT DO NOTHING of each, then the UPDATE of the interconnector, committed
FuelTypesFetched ==
    /\ RefillOnly
    /\ \E refs \in RefillRefs :
       \E i \in {execute_many(db, <<>>, fuel_type_insert_stmt,
                              [k \in 1..Len(refs) |-> [ref |-> refs[k]]])} :
       \E u \in {execute_many(db, i.log, fuel_type_update_stmt,
                              <<[ref |-> 1, name |-> 1, interconnector |-> 1]>>)} :
          /\ call' = [fn |-> "fetch_fuel_types", refs |-> refs, absent |-> {},
                      failed_before |-> {}, cached_before |-> {}]
          /\ snapshot' = db
          /\ tx_log' = u.log
          /\ db' = Commit(db, u.log)
          /\ ended' = "returned"
          /\ ret' = [ok |-> TRUE, error |-> "", executed |-> Len(u.log)]
    /\ UNCHANGED <<fuel_cache, hist>>

\* run() runs fetch_generation_hh on a response whose rows name the fuel types refs
GenerationFetched(refs) ==
    \E v \in {BuildValues(fuel_cache, db["fuel_type"], refs)} :
    \E r \in {execute_many(db, <<>>, generation_by_fuel_type_hh_stmt, HhValues(v.ids))} :
       /\ RefillOnly
       /\ call' = [fn |-> "fetch_generation_hh", refs |-> refs,
                   absent |-> AbsentRefs(refs),
                   failed_before |-> hist \cap {refs[k] : k \in 1..Len(refs)},
                   cached_before |-> {fuel_cache[k][1] : k \in 1..Len(fuel_cache)}]
       /\ fuel_cache' = v.cache
       /\ hist' = hist \cup RaisedAt(fuel_cache, db["fuel_type"], refs)
       /\ snapshot' = db
       /\ tx_log' = IF v.ok THEN r.log ELSE <<>>
       /\ db' = IF v.ok /\ r.ok THEN Commit(db, r.log) ELSE Rollback(db, r.log)
       /\ ended' = IF v.ok /\ r.ok THEN "returned" ELSE "raised"
       /\ ret' = [ok |-> v.ok /\ r.ok,
                  error |-> IF v.ok THEN "" ELSE "Missing fuel type",
                  executed |-> IF v.ok THEN Len(r.log) ELSE 0]

GenerationReturns ==
    \E refs \in RefillRefs :
       /\ BuildValues(fuel_cache, db["fuel_type"], refs).ok
       /\ GenerationFetched(refs)

GenerationRaises ==
    \E refs \in RefillRefs :
       /\ ~BuildValues(fuel_cache, db["fuel_type"], refs).ok
       /\ GenerationFetched(refs)

NextRefill ==
    \/ FuelTypesFetched
    \/ GenerationReturns
    \/ GenerationRaises

SpecRefill == InitRefill /\ [][NextRefill]_vars

\* the refs the lru_cache holds
CachedRefs == {fuel_cache[k][1] : k \in 1..Len(fuel_cache)}

\* C26: a get_fuel_type that raised leaves nothing in the cache (every cache entry is
\* a row of fuel_type, and no ref that only ever failed is cached); once
\* fetch_fuel_types has stored the refs, a fetch_generation_hh naming them succeeds in
\* the same process, also for the refs whose lookup raised before: those were not
\* cached when it started (so they were read from storage), they are cached when it
\* ends, and its rows are committed.
C26_FailedLookupNotCached ==
    /\ \A k \in 1..Len(fuel_cache) :
          \E row \in db["fuel_type"] :
             row["ref"] = fuel_cache[k][1] /\ row["id"] = fuel_cache[k][2]
    /\ \A ref \in hist : ref \in CachedRefs => ref \in {row["ref"] : row \in db["fuel_type"]}
    /\ (call # <<>> /\ call.fn = "fetch_generation_hh") =>
          /\ ret.ok <=> call.absent = {}
          /\ ret.ok =>
                /\ \A k \in 1..Len(call.refs) : call.refs[k] \in CachedRefs
                /\ ret.executed = Len(call.refs)
                /\ \A k \in 1..Len(call.refs) :
                      \E row \in db["generation_by_fuel_type_hh"] :
                         row["fuel_type"] = SelectFuelTypeId(db["fuel_type"], call.refs[k])[1]
          /\ ~ret.ok => db = snapshot

\* a fetch_generation_hh that succeeded for a ref whose lookup had raised before and
\* that was not cached when it started
C26_Witness ==
    /\ call # <<>>
    /\ call.fn = "fetch_generation_hh"
    /\ ret.ok
    /\ call.failed_before # {}
    /\ call.failed_before \cap call.cached_before = {}

====
